---- MODULE Spec2Model ----
(***************************************************************************)
(* Message triage and response workflow of the LinkedIn responder:         *)
(* the keyword classifier (ai_response_generator.py), the triage loop      *)
(* check_messages and the approval gate get_non_interactive_approval       *)
(* (linkedin_agent_playwright.py).                                         *)
(*                                                                         *)
(* Texts are TLA+ strings; Python's `k in s`, s.lower() and len(s) are     *)
(* computed on them character by character.                                *)
(***************************************************************************)
EXTENDS Integers, Sequences, FiniteSets, TLC

VARIABLES
  cl_text, cl_result,          \* classifier harness: input text, returned tuple
  lang_result,                 \* language harness: value of detect_language
  templates,                   \* AIResponseGenerator.templates (line 41)
  gen_call,                    \* generator harness: the last call and its outcome
  gen_memo,                    \* first verdict classify_message returned per text
  gen_between,                 \* texts classified once, with other calls since
  gen_written,                 \* attributes of the generator assigned by a call
  gen_calls,                   \* number of calls made on the generator
  auto_approve, non_interactive, response_timeout,
  openai_api_key, openai_client,
  stdin_mode,                  \* "open" | "closed" (end of file) | "error"
  stdin,                       \* lines typed and not yet read
  typed,                       \* number of lines typed so far
  detected,                    \* the conversations found unread (lines 373-405)
  restored,                    \* last return_to_conversation_list: outcome, call site
  page,                        \* messaging page: conversations listed, unread marks
  run,                         \* number of the check_messages run under way
  prior,                       \* the run before: conversations unread, opened
  delivery,                    \* send_response_in_current_conversation under way
  sched,                       \* scheduled_agent_playwright.main: clock, job, tasks
  login,                       \* LinkedInAgentPlaywright.__init__ and login under way
  probe,                       \* check_messages: the selector probes before the listing
  unread_conversations,        \* the listing the triage loop iterates over
  i,                           \* loop index of check_messages (1-based)
  pc,                          \* position of the main task
  message_content, is_job_offer, message_type, response,
  action,                      \* check_messages: value returned by the gate
  outgoing,                    \* text handed to the delivery call
  success,                     \* check_messages: value returned by the delivery
  reader,                      \* input_thread of gate call g: position, line read
  gate_action,                 \* `action` cell of gate call g (nonlocal)
  elapsed,                     \* seconds since the current thread.join began
  wait,                        \* what the operator did around the current gate call
  h                            \* per conversation: the calls made for it

config == << auto_approve, non_interactive, response_timeout,
             openai_api_key, openai_client, stdin_mode >>
generator == << templates, gen_call, gen_memo, gen_between, gen_written,
                gen_calls >>
rerun == << page, run, prior >>
aux == << delivery, sched, login, probe >>
observed == << restored, rerun, aux >>
harness == << cl_text, cl_result, lang_result, generator, detected, observed >>
loopvars == << message_content, is_job_offer, message_type, response >>
gatevars == << reader, gate_action, elapsed, wait >>
vars == << cl_text, cl_result, lang_result, templates, gen_call, gen_memo,
           gen_between, gen_written, gen_calls, auto_approve, non_interactive, response_timeout,
           openai_api_key, openai_client, stdin_mode, stdin, typed,
           detected, restored, page, run, prior, delivery, sched, login, probe,
           unread_conversations, i, pc, message_content, is_job_offer,
           message_type, response, action, outgoing, success, reader,
           gate_action, elapsed, wait, h >>

(***************************************************************************)
(* Keyword tables of AIResponseGenerator.__init__ and classify_message.    *)
(* The lists are kept as written, duplicates included ("position",         *)
(* "software", "forum", "demo", "premium" occur twice in their lists).     *)
(***************************************************************************)

message_types ==
  [ job_offer |->
      << "job", "position", "opportunity", "opening", "role", "vacancy",
         "recruiter", "recruiting", "talent", "hiring", "career", "employment",
         "interview", "application", "apply", "resume", "cv", "profile",
         "stelle", "position", "rolle", "jobangebot", "stellenangebot",
         "karriere", "bewerbung", "lebenslauf", "berufserfahrung",
         "arbeitgeber", "unternehmen", "herausforderung", "verantwortung",
         "team", "firma", "gehalt", "vergütung" >>,
    technical_recruiter |->
      << "experience", "skills", "qualification", "technical", "developer",
         "engineer", "programming", "code", "software", "devops", "cloud",
         "aws", "azure", "gcp", "kubernetes", "docker", "ci/cd", "pipeline",
         "infrastructure", "architect", "erfahrung", "kenntnisse",
         "qualifikation", "entwickler", "ingenieur", "programmierung",
         "software", "infrastruktur", "automatisierung", "optimierung",
         "terraform", "ansible", "skalierbar", "transformation", "technologien" >>,
    networking |->
      << "connect", "network", "introduction", "meetup", "event", "conference",
         "webinar", "community", "group", "forum", "discussion", "chat",
         "conversation", "verbinden", "netzwerk", "vorstellung", "treffen",
         "veranstaltung", "konferenz", "gemeinschaft", "gruppe", "forum",
         "diskussion", "unterhaltung" >>,
    sales_pitch |->
      << "product", "service", "solution", "offer", "discount", "price", "cost",
         "demo", "presentation", "showcase", "trial", "free", "premium",
         "subscription", "produkt", "dienst", "lösung", "angebot", "rabatt",
         "preis", "kosten", "demo", "präsentation", "vorführung", "testversion",
         "kostenlos", "premium", "abonnement" >> ]

\* iteration order of the dict message_types
TypeOrder == << "job_offer", "technical_recruiter", "networking", "sales_pitch" >>

recruiter_indicators ==
  << "recruiter", "talent acquisition", "headhunter", "sourcing",
     "staffing", "placement", "account manager", "recruiting", "talent",
     "hr", "human resources", "personnel", "personalberater",
     "personalvermittler", "personalreferent", "personaler", "recruiter",
     "account manager", "personalwesen", "personalsuche" >>

job_phrases ==
  << "looking for", "we are seeking", "suche", "stelle", "position",
     "opportunity", "opening", "vacancy", "job", "role", "arbeit" >>

tech_terms ==
  << "devops", "engineer", "entwickler", "cloud", "aws", "azure",
     "kubernetes", "docker", "terraform", "ansible", "pipeline", "ci/cd" >>

(***************************************************************************)
(* String primitives: str.lower(), `k in s`, and s * n.                    *)
(***************************************************************************)
UpperChars == "ABCDEFGHIJKLMNOPQRSTUVWXYZÄÖÜ"
LowerChars == "abcdefghijklmnopqrstuvwxyzäöü"

LowerChar(c) ==
  IF \E p \in 1..Len(UpperChars) : SubSeq(UpperChars, p, p) = c
  THEN LET q == CHOOSE p \in 1..Len(UpperChars) : SubSeq(UpperChars, p, p) = c
       IN SubSeq(LowerChars, q, q)
  ELSE c

RECURSIVE Lower(_)
Lower(s) == IF Len(s) = 0 THEN s
            ELSE IF Len(s) = 1 THEN LowerChar(s)
            ELSE LET half == Len(s) \div 2
                 IN Lower(SubSeq(s, 1, half)) \o Lower(SubSeq(s, half + 1, Len(s)))

Contains(k, t) == \E p \in 1..(Len(t) - Len(k) + 1) : SubSeq(t, p, p + Len(k) - 1) = k

CountIn(list, t) == Cardinality({ p \in 1..Len(list) : Contains(list[p], t) })

RECURSIVE Rep(_, _)
Rep(s, n) == IF n <= 0 THEN ""
             ELSE IF n = 1 THEN s
             ELSE Rep(s, n \div 2) \o Rep(s, n - (n \div 2))


(***************************************************************************)
(* classify_message (ai_response_generator.py:125-198).                    *)
(***************************************************************************)
LongMessageLen == 500
LongMessageBonus == 2
SignatureBonus == 3
OverrideMinTechScore == 2
OverrideScore == 5
MinKeywords == 3
TechOverrideMinTerms == 2
TechOverrideMinLen == 300

JobTypes == { "job_offer", "technical_recruiter" }

\* lines 138-142
has_recruiter_signature(message_lower) ==
  \E n \in 1..Len(recruiter_indicators) :
      Contains(Lower(recruiter_indicators[n]), message_lower)

\* line 148: sum(1 for keyword in keywords if keyword in message_lower)
keyword_count(msg_type, message_lower) ==
  CountIn(message_types[msg_type], message_lower)

\* variant of phrase_bonus without the break of line 166: one point for
\* every job phrase found
phrase_bonus_per_phrase(message_lower) ==
  CountIn(job_phrases, message_lower)

\* lines 161-166: +1 for the first job phrase found, then break
phrase_bonus(message_lower) ==
  IF \E n \in 1..Len(job_phrases) : Contains(job_phrases[n], message_lower)
  THEN 1 ELSE 0

\* lines 146-168: the score of one message type
type_score(msg_type, msg) ==
  LET message_lower == Lower(msg)
  IN  keyword_count(msg_type, message_lower)
      + IF msg_type \in JobTypes
        THEN (IF Len(msg) > LongMessageLen THEN LongMessageBonus ELSE 0)
             + (IF has_recruiter_signature(message_lower) THEN SignatureBonus ELSE 0)
             + phrase_bonus(message_lower)
        ELSE 0

type_scores(msg) ==
  [ t \in DOMAIN message_types |-> type_score(t, msg) ]

\* lines 171-176: scan in dict order, a strictly higher score replaces the best
RECURSIVE ScanMax(_, _, _)
ScanMax(scores, n, best) ==
  IF n > Len(TypeOrder) THEN best
  ELSE LET t == TypeOrder[n]
       IN  IF scores[t] > best[1]
           THEN ScanMax(scores, n + 1, << scores[t], t >>)
           ELSE ScanMax(scores, n + 1, best)

\* variant of tech_term_override that admits a text of exactly
\* TechOverrideMinLen characters
tech_term_override_at_min_len(msg) ==
  /\ CountIn(tech_terms, Lower(msg)) >= TechOverrideMinTerms
  /\ Len(msg) >= TechOverrideMinLen

\* lines 189-196: the technology-term override of a negative primary verdict
tech_term_override(msg) ==
  /\ CountIn(tech_terms, Lower(msg)) >= TechOverrideMinTerms
  /\ Len(msg) > TechOverrideMinLen

\* lines 179: the condition of the signature override, on the scores of
\* line 168 (bonuses included)
signature_override(has_signature, scores) ==
  has_signature /\ scores["technical_recruiter"] >= OverrideMinTechScore

\* variant of classify_message without the signature override of lines
\* 179-182
classify_message_without_override(msg) ==
  LET scores        == type_scores(msg)
      scanned       == ScanMax(scores, 1, << 0, "general_message" >>)
      detected_type == scanned[2]
      max_score     == scanned[1]
      is_job_related      == detected_type \in JobTypes
      has_enough_keywords == max_score >= MinKeywords
  IN  IF ~(is_job_related /\ has_enough_keywords) /\ tech_term_override(msg)
      THEN << TRUE, "technical_recruiter" >>
      ELSE << is_job_related /\ has_enough_keywords, detected_type >>

\* lines 125-198; the result is the tuple (is_job_offer, message_type)
classify_message(msg) ==
  LET message_lower == Lower(msg)
      scores        == type_scores(msg)
      scanned       == ScanMax(scores, 1, << 0, "general_message" >>)
      forced        == signature_override(
                         has_recruiter_signature(message_lower), scores)
      detected_type == IF forced THEN "technical_recruiter" ELSE scanned[2]
      max_score     == IF forced /\ scanned[1] < OverrideScore
                       THEN OverrideScore ELSE scanned[1]
      is_job_related      == detected_type \in JobTypes
      has_enough_keywords == max_score >= MinKeywords
  IN  IF ~(is_job_related /\ has_enough_keywords) /\ tech_term_override(msg)
      THEN << TRUE, "technical_recruiter" >>
      ELSE << is_job_related /\ has_enough_keywords, detected_type >>

(***************************************************************************)
(* Inputs of the classifier harness: up to MaxWords vocabulary entries in  *)
(* vocabulary order, separated by blanks, optionally filled with '.' up to *)
(* a target length around the two length thresholds of the classifier.     *)
(***************************************************************************)
MaxWords == 3
MaxPaddedWords == 2

Vocab == << "job", "position", "Team", "Kubernetes", "AWS",
            "DevOps Engineer", "recruiter", "through",
            "forum event chat network", "free trial" >>

PadTargets == { 300, 301, 500, 501 }

RECURSIVE Join(_, _)
Join(S, n) ==
  IF n > Len(Vocab) THEN ""
  ELSE LET rest == Join(S, n + 1)
       IN  IF n \in S
           THEN (IF rest = "" THEN Vocab[n] ELSE Vocab[n] \o " " \o rest)
           ELSE rest

PadTo(body, target) == body \o Rep(".", target - Len(body))

Bodies(n) == { Join(S, 1) : S \in { T \in SUBSET (1..Len(Vocab)) : Cardinality(T) <= n } }

ClassifyTexts ==
  Bodies(MaxWords) \cup { PadTo(b, L) : b \in Bodies(MaxPaddedWords), L \in PadTargets }

NoResult == << >>

(***************************************************************************)
(* detect_language (ai_response_generator.py:200-219).                     *)
(***************************************************************************)
german_indicators ==
  << "hallo", "guten", "tag", "ich", "bin", "wir", "sind", "haben",
     "können", "möchten", "würden", "stelle", "position", "unternehmen",
     "firma", "bewerbung", "lebenslauf", "gehalt", "vergütung", "remote",
     "homeoffice", "interviews", "gespräche", "prozess", "ablauf", "viele",
     "grüße", "freundliche", "beste", "mit", "für", "auf", "bei", "zu",
     "von" >>

MinGermanIndicators == 3

\* variant of detect_language that needs more than MinGermanIndicators
detect_language_above_min(msg) ==
  IF CountIn(german_indicators, Lower(msg)) > MinGermanIndicators
  THEN "de" ELSE "en"

detect_language(msg) ==
  IF CountIn(german_indicators, Lower(msg)) >= MinGermanIndicators
  THEN "de" ELSE "en"

(***************************************************************************)
(* Response generation (ai_response_generator.py:221-412).  A reply is a   *)
(* record: the tier that produced it and its body.  The texts of lines     *)
(* 340-410 are given as the part before and the part after the sender's    *)
(* name; the bullet of their question lines is written "*".                *)
(***************************************************************************)
GermanJobTemplate ==
  << "Hallo ",
     ",\n\nvielen Dank für Ihre Nachricht bezüglich dieser " \o
     "Gelegenheit. Ich schätze Ihr Interesse sehr.\n\nAls " \o
     "Senior DevOps und Platform Engineer mit Fokus auf " \o
     "Kubernetes, Terraform und Container-Technologien bin ich " \o
     "immer interessiert an spannenden Herausforderungen.\n\n" \o
     "Könnten Sie mir bitte weitere Details mitteilen:\n* Wie " \o
     "ist die Gehaltsvorstellung/der Gehaltsbereich?\n* Wie " \o
     "viele Interview-Runden sind im Recruiting-Prozess " \o
     "vorgesehen?\n* Ist 100% Remote-Arbeit möglich?\n\nDiese " \o
     "Informationen würden mir helfen zu verstehen, ob die " \o
     "Position zu meiner aktuellen Karriererichtung passt.\n\n" \o
     "Viele Grüße,\nAndrei" >>

GermanSalesTemplate ==
  << "Hallo ",
     ",\n\nvielen Dank für die Information über Ihr " \o
     "Produkt/Ihre Lösung. Als DevOps Engineer bin ich immer " \o
     "interessiert an innovativen Tools, die unsere " \o
     "Infrastruktur und Prozesse verbessern können.\n\nKönnten " \o
     "Sie mir mehr Details über die technische Integration und " \o
     "Kompatibilität mit Kubernetes/Container-Umgebungen " \o
     "mitteilen?\n\nBeste Grüße,\nAndrei" >>

GermanGeneralTemplate ==
  << "Hallo ",
     ",\n\nvielen Dank für Ihre Nachricht. Ich schätze es, dass " \o
     "Sie sich gemeldet haben.\n\nKönnten Sie mir etwas mehr " \o
     "Kontext zu Ihrer Anfrage geben? Gerne setze ich das " \o
     "Gespräch fort, sobald ich Ihre Nachricht besser " \o
     "verstehe.\n\nBeste Grüße,\nAndrei" >>

EnglishJobTemplate ==
  << "Hello ",
     ",\n\nThank you for reaching out regarding this " \o
     "opportunity. I appreciate your consideration.\n\nAs a " \o
     "Senior DevOps and Platform Engineer with focus on " \o
     "Kubernetes, Terraform, and container technologies, I'm " \o
     "always interested in exciting challenges.\n\nCould you " \o
     "please share more details about:\n* What is the expected " \o
     "salary range?\n* How many interview rounds are in the " \o
     "recruiting process?\n* Is 100% remote work possible?\n\n" \o
     "This information would help me understand if the role " \o
     "aligns with my current career direction.\n\nBest " \o
     "regards,\nAndrei" >>

EnglishSalesTemplate ==
  << "Hello ",
     ",\n\nThank you for sharing information about your " \o
     "product/solution. As a DevOps Engineer, I'm always " \o
     "interested in innovative tools that can improve our " \o
     "infrastructure and processes.\n\nCould you provide more " \o
     "details about technical integration and compatibility " \o
     "with Kubernetes/container environments?\n\nBest regards,\n" \o
     "Andrei" >>

EnglishGeneralTemplate ==
  << "Hello ",
     ",\n\nThank you for your message. I appreciate you " \o
     "reaching out.\n\nCould you provide a bit more context " \o
     "about your inquiry? I'd be happy to continue the " \o
     "conversation once I better understand your message.\n\n" \o
     "Best regards,\nAndrei" >>

\* variant of contextual_template that answers a sales pitch with the
\* general template
contextual_template_without_sales(language, mtype) ==
  IF language = "de"
  THEN (IF mtype = "job_offer" \/ mtype = "technical_recruiter"
        THEN GermanJobTemplate ELSE GermanGeneralTemplate)
  ELSE (IF mtype = "job_offer" \/ mtype = "technical_recruiter"
        THEN EnglishJobTemplate ELSE EnglishGeneralTemplate)

\* lines 337-410: the template chosen for (language, message type)
contextual_template(language, mtype) ==
  IF language = "de"
  THEN (IF mtype = "job_offer" \/ mtype = "technical_recruiter"
        THEN GermanJobTemplate
        ELSE IF mtype = "sales_pitch" THEN GermanSalesTemplate
        ELSE GermanGeneralTemplate)
  ELSE (IF mtype = "job_offer" \/ mtype = "technical_recruiter"
        THEN EnglishJobTemplate
        ELSE IF mtype = "sales_pitch" THEN EnglishSalesTemplate
        ELSE EnglishGeneralTemplate)

\* lines 322-412
generate_contextual_response(msg, sender_name) ==
  LET c == classify_message(msg)
      template == contextual_template(detect_language(msg), c[2])
  IN  << c[1],
         [ tier |-> "ContextualTemplate",
           body |-> template[1] \o sender_name \o template[2] ] >>

\* str.strip(): leading and trailing blanks removed
RECURSIVE LStrip(_)
LStrip(s) == IF Len(s) > 0 /\ SubSeq(s, 1, 1) = " "
             THEN LStrip(SubSeq(s, 2, Len(s))) ELSE s

RECURSIVE RStrip(_)
RStrip(s) == IF Len(s) > 0 /\ SubSeq(s, Len(s), Len(s)) = " "
             THEN RStrip(SubSeq(s, 1, Len(s) - 1)) ELSE s

Strip(s) == RStrip(LStrip(s))

\* what chat.completions.create can do: raise, or return a content string
ApiOutcomes == { "raise", " Thanks, tell me more. " }

\* variant of generate_ai_response that lets a failed call surface
generate_ai_response_surfacing(msg, mtype, sender_name, client, api) ==
  IF ~client
  THEN generate_contextual_response(msg, sender_name)[2]
  ELSE IF api = "raise"
       THEN [ tier |-> "Raised", body |-> "" ]
       ELSE [ tier |-> "Generated", body |-> Strip(api) ]

\* lines 257-318; client is the openai_client attribute, api the outcome of the call
generate_ai_response(msg, mtype, sender_name, client, api) ==
  IF ~client
  THEN generate_contextual_response(msg, sender_name)[2]
  ELSE IF api = "raise"
       THEN generate_contextual_response(msg, sender_name)[2]
       ELSE [ tier |-> "Generated", body |-> Strip(api) ]

\* variant of generate_response that answers from the template store when
\* no credential is configured
generate_response_from_store(msg, sender_name, key, client, api) ==
  LET c == classify_message(msg)
  IN  << c[1],
         IF key
         THEN generate_ai_response(msg, c[2], sender_name, client, api)
         ELSE [ tier |-> "Template",
                body |-> "Thank you for reaching out about this opportunity." ] >>

\* lines 221-249; key is OPENAI_AVAILABLE and self.openai_api_key
generate_response(msg, sender_name, key, client, api) ==
  LET c == classify_message(msg)
  IN  << c[1],
         IF key
         THEN generate_ai_response(msg, c[2], sender_name, client, api)
         ELSE generate_contextual_response(msg, sender_name)[2] >>

(***************************************************************************)
(* The template store (ai_response_generator.py:93-123, 251-255).          *)
(***************************************************************************)
\* lines 97-115
default_templates ==
  [ job_offer |->
      << "Thank you for reaching out about this opportunity. I " \o
         "appreciate you considering me for this role. Could you " \o
         "please share more details about the position and " \o
         "requirements? I'd be interested in learning more to see " \o
         "if it aligns with my experience and career goals.",
         "I appreciate your message regarding this opportunity. I'm " \o
         "always open to discussing interesting roles. Could you " \o
         "provide more information about the position, including " \o
         "responsibilities and requirements? This would help me " \o
         "determine if it's a good fit for my background.",
         "Thanks for thinking of me for this position. I'd like to " \o
         "learn more about the role and your company. Could you " \o
         "share details about the team, tech stack, and " \o
         "expectations? This would help me understand if it aligns " \o
         "with my current career direction." >>,
    recruiter_intro |->
      << "Thank you for connecting. I'm always interested in " \o
         "learning about new opportunities that align with my " \o
         "skills and career goals. Could you tell me more about the " \o
         "specific role you have in mind?",
         "I appreciate you reaching out. I'm selectively exploring " \o
         "new opportunities at the moment. Could you share more " \o
         "details about the position and company you're recruiting " \o
         "for?" >>,
    follow_up |->
      << "Thank you for the additional information. I've reviewed " \o
         "the details, and I'm interested in discussing this " \o
         "further. Would you be available for a brief call to talk " \o
         "about the role in more depth?",
         "Thanks for sharing more about the position. Based on what " \o
         "you've described, I'd like to learn more. What would be " \o
         "the next steps in the process?" >>,
    not_interested |->
      << "Thank you for thinking of me for this opportunity. After " \o
         "careful consideration, I don't think this is the right " \o
         "fit for me at this time. I appreciate your consideration " \o
         "and wish you success in finding the right candidate.",
         "I appreciate you reaching out about this role. After " \o
         "reviewing the details, I've decided to focus on " \o
         "opportunities that more closely align with my current " \o
         "career direction. Thank you for considering me, and I " \o
         "wish you all the best in your search." >> ]

\* what can be found at templates_path: no file, a file json.load fails
\* on, or a file holding a JSON object
TemplateFiles ==
  { [ kind |-> "absent" ],
    [ kind |-> "invalid" ],
    [ kind |-> "json",
      value |-> [ job_offer |-> << "Thanks, tell me more." >>,
                  networking |-> << "Happy to connect.", "Let us talk." >>,
                  sales_pitch |-> << >> ] ],
    [ kind |-> "json", value |-> [ networking |-> << "Happy to connect." >> ] ],
    [ kind |-> "json", value |-> [ job_offer |-> << >> ] ] }

\* lines 117-123
load_templates(file) ==
  IF file.kind = "json" THEN file.value ELSE default_templates

\* the outcome of a call: the value returned or the exception raised
Return(v) == [ raised |-> FALSE, value |-> v ]
Raise(e) == [ raised |-> TRUE, value |-> e ]

\* lines 251-255; pick is the index random.choice draws
generate_template_response(store, mtype, pick) ==
  IF mtype \in DOMAIN store /\ store[mtype] # << >>
  THEN Return(store[mtype][pick])
  ELSE IF "job_offer" \notin DOMAIN store THEN Raise("KeyError")
  ELSE IF store["job_offer"] = << >> THEN Raise("IndexError")
  ELSE Return(store["job_offer"][1])

(***************************************************************************)
(* Calls on the AIResponseGenerator object.                                *)
(***************************************************************************)
\* messages for every pair of a category and a language
GenTexts ==
  { "We have an exciting DevOps Engineer opportunity with Kubernetes and AWS, salary negotiable",
    "Hallo, wir haben ein Angebot für Ihre Firma: Demo und Rabatt",
    "We have a job opening, salary and benefits included",
    "Hallo, wir suchen einen Entwickler für unser Team, Gehalt verhandelbar",
    "Let us connect and chat at the forum event",
    "Hallo, wir möchten uns vernetzen, Austausch im Netzwerk",
    "Check out our new productivity app, free trial available!",
    "Hallo, wir haben ein Produkt für Sie: Demo und Rabatt, kostenlos",
    "Nice weather today",
    "Hallo, guten Tag, wir sind da" }

Categories ==
  { "job_offer", "technical_recruiter", "networking", "sales_pitch",
    "general_message" }

\* variant of classify_message_writes for a classifier that updates its
\* keyword table
classify_message_writes_table == { "message_types" }

\* the attributes a call of the method assigns or mutates: classify_message
\* (lines 125-198) reads message_types and recruiter_indicators and binds
\* locals only
classify_message_writes == { }

\* detect_language, generate_response, generate_ai_response,
\* generate_contextual_response and generate_template_response (lines
\* 200-412) assign no attribute either
self_writes(method) ==
  IF method = "classify_message" THEN classify_message_writes ELSE { }

NoCall == [ method |-> "none" ]
NoMemo == [ t \in GenTexts |-> NoResult ]


(***************************************************************************)
(* Bounds of the triage model.                                             *)
(***************************************************************************)
MaxConvs == 2      \* unread conversations found by one run
MaxInputs == 1     \* lines the operator types during one run

(***************************************************************************)
(* Configuration read by LinkedInAgentPlaywright.__init__ (lines 36-73)    *)
(* and get_non_interactive_approval (line 1446).                           *)
(***************************************************************************)
MinWait == 120
ResponseTimeouts == { 30, 180 }

\* the lines an operator may type; input() returns them without the newline
InputLines == { "a", " E", "" }

\* messages found in unread conversations (spec scenarios 1 and 3, and an
\* empty extraction)
Conversations ==
  { [ sender |-> "Ann",
      text |-> "We have an exciting DevOps Engineer opportunity with Kubernetes and AWS, salary negotiable" ],
    [ sender |-> "Bob",
      text |-> "Check out our new productivity app, free trial available!" ],
    [ sender |-> "Unknown Contact", text |-> "" ] }


Max(a, b) == IF a > b THEN a ELSE b

Gates == 1..MaxConvs
NoLine == "<none>"
ReadError == "<error>"
NoReply == [ tier |-> "None", body |-> "" ]

IdleReader == [ pc |-> "none", line |-> NoLine, user_input |-> NoLine ]

\* per conversation: was its text extracted, the calls of generate_response,
\* of the gate, of the delivery and of return_to_conversation_list made for
\* it, the assignments to the cell of its gate call, the value the gate
\* returned
NoHistory ==
  [ extracted |-> FALSE, gen |-> 0, gate |-> 0, deliv |-> 0, restore |-> 0,
    writes |-> 0, ret |-> "none" ]

\* around the current gate call: lines typed in the run when the call began,
\* when its deadline passed (-1: not passed) and when it returned (-1: not
\* returned); the line typed for it (see TypedForGate); whether join had
\* returned when the cell was read
NoWait ==
  [ call_typed |-> 0, dl_typed |-> -1, ret_typed |-> -1, line |-> NoLine,
    unblocked |-> FALSE ]

\* line 1446
actual_timeout == Max(response_timeout, MinWait)

\* line 1426: input().strip().lower()
Normalize(line) == Lower(Strip(line))

\* variant of decide that takes an empty line for the send token
decide_empty_sends(user_input, current) ==
  IF user_input = "a" \/ user_input = "" THEN "send"
  ELSE IF user_input = "e" THEN "edit"
  ELSE current

\* lines 1428-1435: the value of the cell after the reader has looked at its line
decide(user_input, current) ==
  IF user_input = "a" THEN "send"
  ELSE IF user_input = "e" THEN "edit"
  ELSE current

\* variant of should_respond that ignores the classifier's verdict
should_respond_any_text(content, job_offer) == content # ""

\* lines 534 and 543: a reply is drafted for a non-empty, actionable message
should_respond(content, job_offer) == content # "" /\ job_offer

\* variant of can_prompt that asks for the edited text in every mode
can_prompt_in_every_mode == TRUE

\* line 565: the edited text is asked for only with an operator present
can_prompt == ~non_interactive

\* variant of after_gate that also delivers a skipped draft
after_gate_always_delivers(a) ==
  IF a = "edit" /\ ~non_interactive THEN "prompt" ELSE "deliver"

\* lines 554-586: what check_messages does with the gate's answer
after_gate(a) ==
  IF a = "send" THEN "deliver"
  ELSE IF a = "edit" THEN (IF can_prompt THEN "prompt" ELSE "deliver")
  ELSE "restore"

\* variant of gate_waits that starts the reader whatever auto_approve says
gate_always_waits == TRUE

\* line 1394
gate_waits == ~auto_approve

\* variant of cell_of with one cell shared by all calls: every reader
\* assigns the cell of the call in progress
cell_of_current_call(g) == i

\* the cell a reader thread assigns: the `action` of its own gate call
cell_of(g) == g

\* classify_message and generate_response over the messages of the listing
ConfigKeys == { << FALSE, FALSE >>, << TRUE, FALSE >>, << TRUE, TRUE >> }
ClassifyTable == [ c \in Conversations |-> classify_message(c.text) ]
ResponseTable ==
  [ c \in Conversations, k \in ConfigKeys, api \in ApiOutcomes |->
      generate_response(c.text, c.sender, k[1], k[2], api) ]

\* return_to_conversation_list has not been called
NoRestore ==
  [ out |-> [ ret |-> "none", direct |-> FALSE, raised |-> FALSE ],
    handler |-> FALSE ]

\* no run before this one
NoPrior == [ unread |-> 0, opened |-> 0 ]

\* an empty messaging page, first run
RerunIdle == page = [ listed |-> 0, marks |-> { } ] /\ run = 1 /\ prior = NoPrior

\* send_response_in_current_conversation is not running
NoDelivery ==
  [ at |-> "idle", k |-> 0, typed_by |-> "none", typed_k |-> 0,
    clicked_k |-> 0, enter |-> "no", ret |-> "none", raised |-> FALSE ]

\* the scheduler is not running
NoSched == [ at |-> "idle" ]

\* no agent is being constructed or logged in
NoLogin == [ at |-> "idle" ]

\* check_messages is not probing the page
NoProbe == [ at |-> "idle" ]

AuxIdle ==
  delivery = NoDelivery /\ sched = NoSched /\ login = NoLogin /\ probe = NoProbe

\* nothing observed yet
ObservedIdle == restored = NoRestore /\ RerunIdle /\ AuxIdle

\* the generator as constructed without a template file, no call made
IdleGenerator ==
  /\ templates = default_templates
  /\ gen_call = NoCall /\ gen_memo = NoMemo /\ gen_between = { }
  /\ gen_written = { } /\ gen_calls = 0

TriageInit ==
  /\ cl_text = "" /\ cl_result = NoResult /\ lang_result = ""
  /\ IdleGenerator
  /\ auto_approve \in BOOLEAN
  /\ non_interactive \in BOOLEAN
  /\ response_timeout \in ResponseTimeouts
  /\ openai_api_key \in BOOLEAN
  /\ openai_client \in BOOLEAN
  /\ openai_client = openai_api_key
  /\ stdin_mode \in { "open", "error" }
  /\ stdin = << >>
  /\ typed = 0
  /\ unread_conversations \in UNION { [ 1..n -> Conversations ] : n \in 1..MaxConvs }
  /\ detected = unread_conversations
  /\ ObservedIdle
  /\ i = 1
  /\ pc = "open"
  /\ message_content = "" /\ is_job_offer = FALSE /\ message_type = ""
  /\ response = NoReply
  /\ action = "none"
  /\ outgoing = NoReply
  /\ success = "unset"
  /\ reader = [ g \in Gates |-> IdleReader ]
  /\ gate_action = [ g \in Gates |-> "unset" ]
  /\ elapsed = 0
  /\ wait = NoWait
  /\ h = [ g \in Gates |-> NoHistory ]

(***************************************************************************)
(* check_messages, lines 423-600: one cycle per unread conversation.       *)
(***************************************************************************)
Running == pc # "done"

\* lines 423-543 and 587-588: open conversation i, read the sender and the
\* message text, classify it.  A click that fails both directly and by
\* script raises into the handler of line 593.
OpenConversation ==
  /\ pc = "open"
  /\ \E clicked \in BOOLEAN :
       IF clicked
       THEN LET content == unread_conversations[i].text
                c == IF content = "" THEN << FALSE, "" >>
                     ELSE ClassifyTable[unread_conversations[i]]
            IN  /\ message_content' = content
                /\ is_job_offer' = c[1]
                /\ message_type' = c[2]
                /\ h' = [ h EXCEPT ![i].extracted = TRUE ]
                /\ pc' = IF should_respond(content, c[1]) THEN "generate" ELSE "restore"
       ELSE /\ pc' = "except"
            /\ UNCHANGED << message_content, is_job_offer, message_type, h >>
  /\ UNCHANGED << harness, config, stdin, typed, unread_conversations, i,
                  response, action, outgoing, success, gatevars >>

\* lines 546-549: draft the reply and show it
Generate ==
  /\ pc = "generate"
  /\ \E api \in (IF openai_client THEN ApiOutcomes ELSE { "raise" }) :
       LET r == ResponseTable[unread_conversations[i],
                              << openai_api_key, openai_client >>, api]
       IN  /\ is_job_offer' = r[1]
           /\ response' = r[2]
           /\ h' = [ h EXCEPT ![i].gen = @ + 1 ]
  /\ pc' = "gate"
  /\ UNCHANGED << harness, config, stdin, typed, unread_conversations, i,
                  message_content, message_type, action, outgoing, success,
                  gatevars >>

(***************************************************************************)
(* get_non_interactive_approval, lines 1392-1454.  The main task runs      *)
(* GateCall (lines 1394-1443), JoinReturn (1447) and GateReturn            *)
(* (1449-1454); the input_thread of call g runs ReaderFlush (1421-1422),   *)
(* ReaderRead (1426) and ReaderDecide (1428-1435).                         *)
(***************************************************************************)
GateCall ==
  /\ pc = "gate"
  /\ IF gate_waits
     THEN /\ gate_action' = [ gate_action EXCEPT ![i] = "skip" ]
          /\ reader' = [ reader EXCEPT ![i].pc = "flush" ]
          /\ elapsed' = 0
          /\ wait' = [ NoWait EXCEPT !.call_typed = typed ]
          /\ h' = [ h EXCEPT ![i].gate = @ + 1 ]
          /\ pc' = "gate_join"
          /\ UNCHANGED action
     ELSE /\ action' = "send"
          /\ wait' = [ NoWait EXCEPT !.call_typed = typed, !.ret_typed = typed ]
          /\ h' = [ h EXCEPT ![i].gate = @ + 1, ![i].ret = "send" ]
          /\ pc' = "act"
          /\ UNCHANGED << gate_action, reader, elapsed >>
  /\ UNCHANGED << harness, config, stdin, typed, unread_conversations, i,
                  loopvars, outgoing, success >>

\* a step of reader g is possible now (a reader spinning at end of file or
\* blocked in input() without a line is not counted)
ReaderCanStep(g) ==
  \/ reader[g].pc = "flush" /\ (stdin_mode # "closed" \/ stdin # << >>)
  \/ reader[g].pc = "read" /\ (stdin # << >> \/ stdin_mode = "closed")
  \/ reader[g].pc = "got"

\* thread.join(actual_timeout) is waiting: the reader of this call has not
\* ended and no thread has a step to take, so the time runs to the bound
Tick ==
  /\ pc = "gate_join"
  /\ reader[i].pc # "done"
  /\ elapsed < actual_timeout
  /\ \A g \in Gates : ~ReaderCanStep(g)
  /\ elapsed' = actual_timeout
  /\ wait' = [ wait EXCEPT !.dl_typed = typed ]
  /\ UNCHANGED << harness, config, stdin, typed, unread_conversations, i, pc,
                  loopvars, action, outgoing, success, reader, gate_action, h >>

\* line 1447: join returns when the thread has ended or the timeout expired
JoinReturn ==
  /\ pc = "gate_join"
  /\ reader[i].pc = "done" \/ elapsed >= actual_timeout
  /\ pc' = "gate_ret"
  /\ wait' = [ wait EXCEPT !.unblocked = TRUE ]
  /\ UNCHANGED << harness, config, stdin, typed, unread_conversations, i,
                  loopvars, action, outgoing, success, reader, gate_action,
                  elapsed, h >>

\* lines 1449-1454: read the cell and return it
GateReturn ==
  /\ pc = "gate_ret"
  /\ action' = gate_action[i]
  /\ wait' = [ wait EXCEPT !.ret_typed = typed ]
  /\ h' = [ h EXCEPT ![i].ret = gate_action[i] ]
  /\ pc' = "act"
  /\ UNCHANGED << harness, config, stdin, typed, unread_conversations, i,
                  loopvars, outgoing, success, reader, gate_action, elapsed >>

\* lines 1421-1422: discard pending input.  select() raises on an unusable
\* stdin (handler of line 1436); at end of file it reports readable and
\* readline() returns '' for ever, so the loop never ends.
ReaderFlush(g) ==
  /\ Running
  /\ reader[g].pc = "flush"
  /\ \/ /\ stdin_mode = "error"
        /\ reader' = [ reader EXCEPT ![g].pc = "done", ![g].user_input = ReadError ]
        /\ UNCHANGED stdin
     \/ /\ stdin_mode = "open"
        /\ reader' = [ reader EXCEPT ![g].pc = "read" ]
        /\ stdin' = << >>
     \/ /\ stdin_mode = "closed"
        /\ stdin # << >>
        /\ stdin' = << >>
        /\ UNCHANGED reader
  /\ UNCHANGED << harness, config, typed, unread_conversations, i, pc,
                  loopvars, action, outgoing, success, gate_action, elapsed,
                  wait, h >>

\* line 1426: input() takes the next line; EOFError at end of file
ReaderRead(g) ==
  /\ Running
  /\ reader[g].pc = "read"
  /\ \/ /\ stdin # << >>
        /\ reader' = [ reader EXCEPT ![g].pc = "got", ![g].line = Head(stdin),
                                     ![g].user_input = Normalize(Head(stdin)) ]
        /\ stdin' = Tail(stdin)
     \/ /\ stdin = << >>
        /\ stdin_mode = "closed"
        /\ reader' = [ reader EXCEPT ![g].pc = "done", ![g].user_input = ReadError ]
        /\ UNCHANGED stdin
  /\ UNCHANGED << harness, config, typed, unread_conversations, i, pc,
                  loopvars, action, outgoing, success, gate_action, elapsed,
                  wait, h >>

\* lines 1428-1435: assign the cell for 'a' or 'e'
ReaderDecide(g) ==
  /\ Running
  /\ reader[g].pc = "got"
  /\ LET c == cell_of(g)
         v == decide(reader[g].user_input, gate_action[c])
     IN  /\ gate_action' = [ gate_action EXCEPT ![c] = v ]
         /\ h' = IF v # gate_action[c]
                 THEN [ h EXCEPT ![g].writes = @ + 1 ] ELSE h
  /\ reader' = [ reader EXCEPT ![g].pc = "done" ]
  /\ UNCHANGED << harness, config, stdin, typed, unread_conversations, i, pc,
                  loopvars, action, outgoing, success, elapsed, wait >>

\* send_response_in_current_conversation, lines 831-1005, by what the page
\* lets it do: container present, reply input typed into (selector list or
\* script fallback), send control clicked, Enter pressed
send_response_in_current_conversation(container, input_found, clicked, enter) ==
  IF ~container \/ ~input_found THEN FALSE
  ELSE (clicked \/ enter) \/ input_found

\* variant of Delivery that hands over a draft generated anew
Delivery_of_new_draft(text) ==
  \E container, input_found, clicked, enter \in BOOLEAN :
     /\ outgoing' = [ tier |-> "Template",
                      body |-> "Thank you for your message." ]
     /\ success' = IF send_response_in_current_conversation(
                        container, input_found, clicked, enter)
                   THEN "True" ELSE "False"
     /\ h' = [ h EXCEPT ![i].deliv = @ + 1 ]

\* one call of the delivery with the given text
Delivery(text) ==
  \E container, input_found, clicked, enter \in BOOLEAN :
     /\ outgoing' = text
     /\ success' = IF send_response_in_current_conversation(
                        container, input_found, clicked, enter)
                   THEN "True" ELSE "False"
     /\ h' = [ h EXCEPT ![i].deliv = @ + 1 ]

\* lines 554-562 and 581-583: send the draft
Deliver ==
  /\ pc = "act"
  /\ after_gate(action) = "deliver"
  /\ Delivery(response)
  /\ pc' = "restore"
  /\ UNCHANGED << harness, config, stdin, typed, unread_conversations, i,
                  loopvars, action, gatevars >>

\* variant of Prompt that sends the draft when the edited text cannot be read
Prompt_sending_draft_on_eof ==
  /\ pc = "act"
  /\ after_gate(action) = "prompt"
  /\ \/ /\ stdin # << >>
        /\ Delivery(IF Strip(Head(stdin)) = "" THEN response
                    ELSE [ tier |-> "Edited", body |-> Strip(Head(stdin)) ])
        /\ stdin' = Tail(stdin)
     \/ /\ stdin = << >>
        /\ stdin_mode = "closed"
        /\ Delivery(response)
        /\ UNCHANGED stdin
  /\ pc' = "restore"
  /\ UNCHANGED << harness, config, typed, unread_conversations, i, loopvars,
                  action, gatevars >>

\* lines 564-580: Prompt.ask reads the edited text from the same stdin (an
\* empty line keeps the draft) and the edited text is sent; end of file
\* (EOFError) skips the message
Prompt ==
  /\ pc = "act"
  /\ after_gate(action) = "prompt"
  /\ \/ /\ stdin # << >>
        /\ Delivery(IF Strip(Head(stdin)) = "" THEN response
                    ELSE [ tier |-> "Edited", body |-> Strip(Head(stdin)) ])
        /\ stdin' = Tail(stdin)
     \/ /\ stdin = << >>
        /\ stdin_mode = "closed"
        /\ UNCHANGED << stdin, outgoing, success, h >>
  /\ pc' = "restore"
  /\ UNCHANGED << harness, config, typed, unread_conversations, i, loopvars,
                  action, gatevars >>

\* lines 585-586: the gate said skip
SkipMessage ==
  /\ pc = "act"
  /\ after_gate(action) = "restore"
  /\ pc' = "restore"
  /\ UNCHANGED << harness, config, stdin, typed, unread_conversations, i,
                  loopvars, action, outgoing, success, gatevars, h >>

\* the for statement of line 423 moves to the next conversation
NextPc == IF i < Len(unread_conversations) THEN "open" ELSE "done"

\* the iteration ends: its locals (lines 459, 503, 541, 547, 552) are all
\* assigned again before the next iteration reads them
EndIteration ==
  /\ i' = IF i < Len(unread_conversations) THEN i + 1 ELSE i
  /\ pc' = NextPc
  /\ message_content' = "" /\ is_job_offer' = FALSE /\ message_type' = ""
  /\ response' = NoReply /\ action' = "none" /\ outgoing' = NoReply
  /\ success' = "unset"
  /\ elapsed' = 0 /\ wait' = NoWait

\* line 591: return_to_conversation_list, then the next iteration
Restore ==
  /\ pc = "restore"
  /\ h' = [ h EXCEPT ![i].restore = @ + 1 ]
  /\ EndIteration
  /\ UNCHANGED << harness, config, stdin, typed, unread_conversations,
                  reader, gate_action >>

\* variant of Except whose handler continues without restoring the list
Except_without_restore ==
  /\ pc = "except"
  /\ EndIteration
  /\ UNCHANGED << harness, config, stdin, typed, unread_conversations,
                  reader, gate_action, h >>

\* lines 593-600: the handler restores the list and continues the loop
Except ==
  /\ pc = "except"
  /\ h' = [ h EXCEPT ![i].restore = @ + 1 ]
  /\ EndIteration
  /\ UNCHANGED << harness, config, stdin, typed, unread_conversations,
                  reader, gate_action >>

\* the number of list-view restores attempted for the first g handles
RECURSIVE restores(_)
restores(g) == IF g = 0 THEN 0 ELSE h[g].restore + restores(g - 1)

\* the number of restores that had been made when handle k was obtained:
\* every handle of unread_conversations comes from the one listing of
\* lines 354-405, made before the loop
obtained_after(k) == 0

(***************************************************************************)
(* The operator at the terminal.                                           *)
(***************************************************************************)
\* the first line typed during the wait of gate call i, before its
\* deadline, with its reader blocked in input() and nothing pending
TypedForGate ==
  /\ pc = "gate_join"
  /\ elapsed < actual_timeout
  /\ reader[i].pc = "read"
  /\ stdin = << >>
  /\ wait.call_typed = typed

\* the operator types while a draft is on display: from the suggested
\* response (line 549) until the message is sent or skipped
DraftShown == pc \in { "gate", "gate_join", "gate_ret", "act" }

OperatorType(line) ==
  /\ DraftShown
  /\ stdin_mode = "open"
  /\ typed < MaxInputs
  /\ stdin' = Append(stdin, line)
  /\ typed' = typed + 1
  /\ wait' = IF TypedForGate THEN [ wait EXCEPT !.line = line ] ELSE wait
  /\ UNCHANGED << harness, config, unread_conversations, i, pc, loopvars,
                  action, outgoing, success, reader, gate_action, elapsed, h >>

\* the operator ends the input (end of file on stdin)
OperatorClose ==
  /\ DraftShown
  /\ stdin_mode = "open"
  /\ stdin_mode' = "closed"
  /\ UNCHANGED << harness, auto_approve, non_interactive, response_timeout,
                  openai_api_key, openai_client, stdin, typed,
                  unread_conversations, i, pc, loopvars, action, outgoing,
                  success, gatevars, h >>

TriageNext ==
  \/ OpenConversation \/ Generate
  \/ GateCall \/ Tick \/ JoinReturn \/ GateReturn
  \/ Deliver \/ Prompt \/ SkipMessage \/ Restore \/ Except
  \/ \E g \in Gates : ReaderFlush(g) \/ ReaderRead(g) \/ ReaderDecide(g)
  \/ \E line \in InputLines : OperatorType(line)
  \/ OperatorClose

Init == TriageInit
Next == TriageNext
Spec == Init /\ [][Next]_vars

(***************************************************************************)
(* The triage loop with an operator who answers the edit prompt of line    *)
(* 568: interactive mode, no auto-approve, and a line typed while          *)
(* Prompt.ask waits.  Prompt.ask returns the line without its surrounding  *)
(* white space, or its default, the draft, for an empty line.              *)
(***************************************************************************)
EditLines == { " Sounds good, please call me. ", "" }

EditInit ==
  /\ TriageInit
  /\ ~auto_approve /\ ~non_interactive /\ stdin_mode = "open"

\* the operator types at the prompt of line 568
OperatorEdit(line) ==
  /\ pc = "act" /\ after_gate(action) = "prompt"
  /\ stdin_mode = "open" /\ stdin = << >>
  /\ stdin' = << line >>
  /\ UNCHANGED << harness, config, typed, unread_conversations, i, pc,
                  loopvars, action, outgoing, success, gatevars, h >>

EditNext == TriageNext \/ \E line \in EditLines : OperatorEdit(line)
EditSpec == EditInit /\ [][EditNext]_vars

(***************************************************************************)
(* Harness of the classifier: the text is drawn by ClassifyInit and        *)
(* classify_message is applied to it once.                                 *)
(***************************************************************************)
\* everything but the harness variables is at rest
TriageLocalsIdle ==
  /\ auto_approve = FALSE /\ non_interactive = FALSE
  /\ response_timeout = 30
  /\ stdin_mode = "open" /\ stdin = << >> /\ typed = 0
  /\ unread_conversations = << >>
  /\ i = 0
  /\ message_content = "" /\ is_job_offer = FALSE /\ message_type = ""
  /\ response = NoReply /\ action = "none" /\ outgoing = NoReply
  /\ success = "unset"
  /\ reader = [ g \in Gates |-> IdleReader ]
  /\ gate_action = [ g \in Gates |-> "unset" ]
  /\ elapsed = 0 /\ wait = NoWait
  /\ h = [ g \in Gates |-> NoHistory ]

TriageIdle ==
  TriageLocalsIdle /\ ObservedIdle /\ detected = << >> /\ pc = "done"

triage_but_pc == << stdin, typed, unread_conversations, i, loopvars, action,
                   outgoing, success, gatevars, h >>

triage == << stdin, typed, unread_conversations, i, pc, loopvars, action,
            outgoing, success, gatevars, h >>

ClassifyInit ==
  /\ cl_text \in ClassifyTexts /\ cl_result = NoResult /\ lang_result = ""
  /\ IdleGenerator
  /\ openai_api_key = FALSE /\ openai_client = FALSE
  /\ TriageIdle

ClassifyStep ==
  /\ cl_result = NoResult
  /\ cl_result' = classify_message(cl_text)
  /\ UNCHANGED << cl_text, lang_result, generator, detected, observed, config,
                  triage >>

ClassifyNext == ClassifyStep
ClassifySpec == ClassifyInit /\ [][ClassifyNext]_vars

(***************************************************************************)
(* Harness of the generator object: it is constructed with some template   *)
(* file and some credential, then up to MaxCalls of its methods are called *)
(* in any order.                                                           *)
(***************************************************************************)
MaxCalls == 3

\* what chat.completions.create can do here: raise, or return a content
\* string, which may be empty or blank
GenApiOutcomes == ApiOutcomes \cup { "", "  " }

Sender == "Ann"

\* any tuple classify_message can return
Verdicts == BOOLEAN \X Categories

GenClassify == [ t \in GenTexts |-> classify_message(t) ]
GenLanguage == [ t \in GenTexts |-> detect_language(t) ]
GenContextual == [ t \in GenTexts |-> generate_contextual_response(t, Sender) ]
GenResponse ==
  [ t \in GenTexts, k \in ConfigKeys, api \in GenApiOutcomes |->
      generate_response(t, Sender, k[1], k[2], api) ]

\* the categories generate_template_response is asked for
TemplateCategories == Categories \cup { "recruiter_intro" }

GeneratorInit ==
  /\ cl_text = "" /\ cl_result = NoResult /\ lang_result = ""
  /\ \E file \in TemplateFiles : templates = load_templates(file)
  /\ gen_call = NoCall /\ gen_memo = NoMemo /\ gen_between = { }
  /\ gen_written = { } /\ gen_calls = 0
  /\ \E k \in ConfigKeys : openai_api_key = k[1] /\ openai_client = k[2]
  /\ TriageIdle

\* the keyword tables are as __init__ left them
TablesIntact ==
  gen_written \cap { "message_types", "recruiter_indicators" } = { }

\* bookkeeping common to all calls: a call of another method comes between
\* two classifications of every text classified so far
Called(method) ==
  /\ gen_calls < MaxCalls
  /\ gen_calls' = gen_calls + 1
  /\ gen_written' = gen_written \cup self_writes(method)
  /\ UNCHANGED << cl_text, cl_result, lang_result, templates, detected,
                  observed, config, triage >>

OtherCalled(method) ==
  /\ Called(method)
  /\ gen_between' = { t \in GenTexts : gen_memo[t] # NoResult }
  /\ UNCHANGED gen_memo

\* classify_message(t): with tables that a call has changed the verdict is
\* anybody's guess
ClassifyCall(t) ==
  /\ Called("classify_message")
  /\ \E r \in (IF TablesIntact THEN { GenClassify[t] } ELSE Verdicts) :
       /\ gen_call' = [ method |-> "classify_message", text |-> t, result |-> r ]
       /\ gen_memo' = IF gen_memo[t] = NoResult
                      THEN [ gen_memo EXCEPT ![t] = r ] ELSE gen_memo
  /\ UNCHANGED gen_between

DetectCall(t) ==
  /\ OtherCalled("detect_language")
  /\ gen_call' = [ method |-> "detect_language", text |-> t,
                   result |-> GenLanguage[t] ]

\* generate_response(t, Sender); api is what the external call does when it
\* is made
GenerateCall(t, api) ==
  /\ OtherCalled("generate_response")
  /\ api = "raise" \/ (openai_api_key /\ openai_client)
  /\ gen_call' = [ method |-> "generate_response", text |-> t, api |-> api,
                   result |-> GenResponse[t, << openai_api_key, openai_client >>, api] ]

ContextualCall(t) ==
  /\ OtherCalled("generate_contextual_response")
  /\ gen_call' = [ method |-> "generate_contextual_response", text |-> t,
                   result |-> GenContextual[t] ]

\* generate_template_response(mtype); random.choice draws pick
TemplateCall(mtype, pick) ==
  /\ OtherCalled("generate_template_response")
  /\ gen_call' = [ method |-> "generate_template_response", mtype |-> mtype,
                   pick |-> pick,
                   result |-> generate_template_response(templates, mtype, pick) ]

\* the indices random.choice can draw for the category
Picks(mtype) ==
  IF mtype \in DOMAIN templates /\ templates[mtype] # << >>
  THEN 1..Len(templates[mtype]) ELSE { 1 }

GeneratorNext ==
  \/ \E t \in GenTexts : ClassifyCall(t)
  \/ \E t \in GenTexts : DetectCall(t)
  \/ \E t \in GenTexts, api \in GenApiOutcomes : GenerateCall(t, api)
  \/ \E t \in GenTexts : ContextualCall(t)
  \/ \E mtype \in TemplateCategories :
        \E pick \in Picks(mtype) : TemplateCall(mtype, pick)

GeneratorSpec == GeneratorInit /\ [][GeneratorNext]_vars

(***************************************************************************)
(* Harness of detect_language: the method is applied to one text made of   *)
(* up to MaxLangWords entries of LangVocab, in any order and with          *)
(* repetition, separated by blanks.  "Montag" holds the indicator 'tag'    *)
(* inside a longer word, "WIR" is an indicator in upper case.              *)
(***************************************************************************)
MaxLangWords == 3

LangVocab == << "Hallo", "Guten", "Montag", "WIR", "hello", "team" >>

RECURSIVE JoinWords(_)
JoinWords(ws) ==
  IF ws = << >> THEN ""
  ELSE IF Len(ws) = 1 THEN LangVocab[ws[1]]
  ELSE LangVocab[ws[1]] \o " " \o JoinWords(Tail(ws))

LanguageTexts ==
  { JoinWords(ws) : ws \in UNION { [1..n -> 1..Len(LangVocab)] : n \in 0..MaxLangWords } }

LanguageInit ==
  /\ cl_text \in LanguageTexts /\ cl_result = NoResult /\ lang_result = ""
  /\ IdleGenerator
  /\ openai_api_key = FALSE /\ openai_client = FALSE
  /\ TriageIdle

LanguageStep ==
  /\ lang_result = ""
  /\ lang_result' = detect_language(cl_text)
  /\ UNCHANGED << cl_text, cl_result, generator, detected, observed, config,
                  triage >>

LanguageNext == LanguageStep
LanguageSpec == LanguageInit /\ [][LanguageNext]_vars

(***************************************************************************)
(* One run of check_messages over a long listing (lines 373-600).  A       *)
(* conversation handle is the position of the conversation in the listing; *)
(* the listing has up to MaxListed conversations of which at most one is   *)
(* already read.  What happens inside a conversation cycle is reduced to   *)
(* its outcome.                                                            *)
(***************************************************************************)
MaxListed == 22

\* line 417
ProcessingCap == 20

\* variant of max_to_process without the cap
max_to_process_uncapped(unread) == Len(unread)

\* line 417: min(len(unread_conversations), 20)
max_to_process(unread) ==
  IF Len(unread) < ProcessingCap THEN Len(unread) ELSE ProcessingCap

\* lines 373-405: the positions of the listing that show an unread mark,
\* in listing order; position read (0 for none) shows none
Unread(listed, read) ==
  LET before == IF read = 0 THEN listed ELSE read - 1
  IN  [ k \in 1..(IF read = 0 THEN listed ELSE listed - 1) |->
          IF k <= before THEN k ELSE k + 1 ]

CycleOutcomes == { "sent", "left", "error" }

\* variant of return_to_conversation_list that lets a failed fallback
\* navigation surface
return_to_conversation_list_raising(back_clicked, goto_ok, wait_ok, fallback_ok) ==
  IF (back_clicked \/ goto_ok) /\ wait_ok
  THEN [ ret |-> "True", direct |-> ~back_clicked, raised |-> FALSE ]
  ELSE [ ret |-> IF fallback_ok THEN "True" ELSE "none", direct |-> TRUE,
         raised |-> ~fallback_ok ]

\* lines 788-829.  back_clicked: a back control was found and clicked
\* (lines 800-810); goto_ok: the navigation of line 815 succeeded; wait_ok:
\* the list appeared within the wait of line 819; fallback_ok: the
\* navigation of line 826 succeeded.  direct tells whether the messaging
\* page was navigated to.
return_to_conversation_list(back_clicked, goto_ok, wait_ok, fallback_ok) ==
  IF (back_clicked \/ goto_ok) /\ wait_ok
  THEN [ ret |-> "True", direct |-> ~back_clicked, raised |-> FALSE ]
  ELSE [ ret |-> IF fallback_ok THEN "True" ELSE "False", direct |-> TRUE,
         raised |-> FALSE ]

CapInit ==
  /\ cl_text = "" /\ cl_result = NoResult /\ lang_result = ""
  /\ IdleGenerator
  /\ openai_api_key = FALSE /\ openai_client = FALSE
  /\ TriageLocalsIdle /\ ObservedIdle
  /\ \E listed \in 0..MaxListed : \E read \in 0..listed :
        detected = Unread(listed, read)
  /\ pc = "listed"

\* lines 407-420: nothing unread ends the run; a listing longer than the
\* cap is cut to its first max_to_process entries
LimitListing ==
  /\ pc = "listed"
  /\ IF detected = << >>
     THEN /\ pc' = "done"
          /\ UNCHANGED << unread_conversations, i >>
     ELSE /\ unread_conversations' = SubSeq(detected, 1, max_to_process(detected))
          /\ i' = 1
          /\ pc' = "open"
  /\ UNCHANGED << harness, config, stdin, typed, loopvars, action, outgoing,
                  success, gatevars, h >>

\* lines 424-441: the click on the handle; when both clicks fail the
\* handler of line 593 takes over
CapOpen ==
  /\ pc = "open"
  /\ \E clicked \in BOOLEAN : pc' = IF clicked THEN "cycle" ELSE "except"
  /\ UNCHANGED << harness, config, stdin, typed, unread_conversations, i,
                  loopvars, action, outgoing, success, gatevars, h >>

\* lines 443-589: the open conversation is read and, when a reply is
\* approved, answered
CapCycle ==
  /\ pc = "cycle"
  /\ \E outcome \in CycleOutcomes :
       /\ success' = IF outcome = "sent" THEN "True" ELSE "unset"
       /\ pc' = IF outcome = "error" THEN "except" ELSE "restore"
  /\ UNCHANGED << harness, config, stdin, typed, unread_conversations, i,
                  loopvars, action, outgoing, gatevars, h >>

\* line 591, and lines 593-600: back to the list, then the next handle.
\* An exception leaving the call of line 591 enters the handler of line
\* 593; one leaving the call of line 597 is dropped by line 598.
CapRestore ==
  /\ pc \in { "restore", "except" }
  /\ \E back_clicked, goto_ok, wait_ok, fallback_ok \in BOOLEAN :
       restored' = [ out |-> return_to_conversation_list(
                                back_clicked, goto_ok, wait_ok, fallback_ok),
                     handler |-> (pc = "except") ]
  /\ IF pc = "restore" /\ restored'.out.raised
     THEN /\ pc' = "except"
          /\ UNCHANGED << i, success >>
     ELSE /\ i' = IF i < Len(unread_conversations) THEN i + 1 ELSE i
          /\ pc' = NextPc
          /\ success' = "unset"
  /\ UNCHANGED << cl_text, cl_result, lang_result, generator, detected,
                  rerun, aux, config, stdin, typed, unread_conversations, loopvars,
                  action, outgoing, gatevars, h >>

CapNext == LimitListing \/ CapOpen \/ CapCycle \/ CapRestore
CapSpec == CapInit /\ [][CapNext]_vars

(***************************************************************************)
(* Two runs of check_messages in succession on one messaging page (lines   *)
(* 373-434).  The page lists conversations by position and shows an unread *)
(* mark on some; opening a conversation takes its mark away, and no        *)
(* message arrives.  A conversation cycle is one step; at most             *)
(* MaxFailedClicks clicks of a run fail.                                   *)
(***************************************************************************)
MaxFailedClicks == 1

\* variant of is_unread that takes every listed conversation for unread
is_unread_always(position, marks) == TRUE

\* lines 376-399: the conversation shows an unread indicator or a bold title
is_unread(position, marks) == position \in marks

\* lines 374-405: the listed positions found unread, in listing order
RECURSIVE unread_from(_, _, _)
unread_from(position, listed, marks) ==
  IF position > listed THEN << >>
  ELSE IF is_unread(position, marks)
       THEN << position >> \o unread_from(position + 1, listed, marks)
       ELSE unread_from(position + 1, listed, marks)

\* the handles of the run the loop is through with, and those among them
\* whose click failed
Handled == { unread_conversations[k] : k \in 1..(i - 1) }
FailedClicks == Handled \cap page.marks

RerunInit ==
  /\ cl_text = "" /\ cl_result = NoResult /\ lang_result = ""
  /\ IdleGenerator
  /\ openai_api_key = FALSE /\ openai_client = FALSE
  /\ TriageLocalsIdle
  /\ restored = NoRestore /\ AuxIdle /\ detected = << >>
  /\ \E listed \in 0..MaxListed : \E read \in 0..listed :
        page = [ listed |-> listed,
                 marks |-> { p \in 1..listed : p # read } ]
  /\ run = 1 /\ prior = NoPrior
  /\ pc = "start"

\* lines 373-405
Detect ==
  /\ pc = "start"
  /\ detected' = unread_from(1, page.listed, page.marks)
  /\ pc' = "listed"
  /\ UNCHANGED << cl_text, cl_result, lang_result, generator, restored,
                  rerun, aux, config, triage_but_pc >>

\* lines 423-600 for one handle: the click opens the conversation, which
\* loses its mark, or fails; an opened conversation gets no delivery call
\* (unset) or one that returns True or False (lines 557, 572, 583), which
\* is only reported; then the next handle
RerunCycle ==
  /\ pc = "open"
  /\ \E clicked \in BOOLEAN :
       /\ ~clicked => Cardinality(FailedClicks) < MaxFailedClicks
       /\ page' = IF clicked
                  THEN [ page EXCEPT !.marks = @ \ { unread_conversations[i] } ]
                  ELSE page
       /\ success' \in (IF clicked THEN { "unset", "True", "False" }
                        ELSE { "unset" })
  /\ i' = i + 1
  /\ pc' = IF i < Len(unread_conversations) THEN "open" ELSE "done"
  /\ UNCHANGED << cl_text, cl_result, lang_result, generator, detected,
                  restored, run, prior, aux, config, stdin, typed,
                  unread_conversations, loopvars, action, outgoing,
                  gatevars, h >>

\* the next run starts on the page as the run before left it
NextRun ==
  /\ pc = "done" /\ run = 1
  /\ run' = run + 1
  /\ prior' = [ unread |-> Len(detected),
                opened |-> Cardinality({ k \in 1..Len(unread_conversations) :
                                          unread_conversations[k] \notin page.marks }) ]
  /\ detected' = << >> /\ unread_conversations' = << >> /\ i' = 0
  /\ pc' = "start"
  /\ UNCHANGED << cl_text, cl_result, lang_result, generator, restored, page,
                  aux, config, stdin, typed, loopvars, action, outgoing, success,
                  gatevars, h >>

RerunNext == Detect \/ LimitListing \/ RerunCycle \/ NextRun
RerunSpec == RerunInit /\ [][RerunNext]_vars

(***************************************************************************)
(* send_response_in_current_conversation step by step (lines 831-1005):    *)
(* the wait for the conversation container, the reply-input candidates,    *)
(* the script fallback, the send-control candidates, the Enter key.  What  *)
(* the page does at each probe is chosen freely.                           *)
(***************************************************************************)
\* lines 847-864
input_selectors ==
  << "div.msg-form__contenteditable.t-14.t-black--light.t-normal.flex-grow-1.full-height.notranslate[contenteditable='true'][role='textbox']",
     ".msg-form__contenteditable[contenteditable='true']",
     "div.msg-form__contenteditable[contenteditable='true']",
     "div[role='textbox'][contenteditable='true']",
     "div[aria-label*='Nachricht'][contenteditable='true']",
     "div[aria-label*='Message'][contenteditable='true']",
     ".msg-form__message-texteditor div[contenteditable='true']",
     "form div[contenteditable='true']",
     "div.msg-form__contenteditable",
     "div[contenteditable='true']" >>

\* lines 951-959
send_button_selectors ==
  << "button.msg-form__send-button",
     "button[type='submit']",
     "button:has(span:text-is('Send'))",
     "button:has(span:text-is('Senden'))",
     "footer button",
     "form button[type='submit']",
     "button.artdeco-button--primary" >>

\* variant of after_probe whose loop has no break
after_probe_without_break(list, k, succeeded) ==
  IF k < Len(list) THEN "next"
  ELSE IF succeeded THEN "break" ELSE "exhausted"

\* the for loops over a candidate list (lines 868-890, 963-975): break on
\* the first candidate that succeeds, continue otherwise
after_probe(list, k, succeeded) ==
  IF succeeded THEN "break"
  ELSE IF k < Len(list) THEN "next" ELSE "exhausted"

\* variant of after_input that goes on to the send controls in any case
after_input_always_send(input_found) == "send"

\* lines 947-948: without a reply input the call returns False
after_input(input_found) == IF input_found THEN "send" ELSE "returned"

\* line 995
delivery_result(send_clicked, input_found) == send_clicked \/ input_found

PyBool(b) == IF b THEN "True" ELSE "False"

InputFound == delivery.typed_by # "none"
SendClicked == delivery.clicked_k > 0 \/ delivery.enter = "pressed"

DeliveryInit ==
  /\ cl_text = "" /\ cl_result = NoResult /\ lang_result = ""
  /\ IdleGenerator
  /\ openai_api_key = FALSE /\ openai_client = FALSE
  /\ TriageLocalsIdle /\ detected = << >> /\ pc = "done"
  /\ restored = NoRestore /\ RerunIdle
  /\ sched = NoSched /\ login = NoLogin /\ probe = NoProbe
  /\ delivery = [ NoDelivery EXCEPT !.at = "container" ]

DeliveryStep ==
  UNCHANGED << cl_text, cl_result, lang_result, generator, detected,
               restored, rerun, sched, login, probe, config, triage >>

\* line 844; a timeout is handled at line 997 and returns False
WaitContainer ==
  /\ delivery.at = "container"
  /\ \E present \in BOOLEAN :
       delivery' = IF present
                   THEN [ delivery EXCEPT !.at = "input", !.k = 1 ]
                   ELSE [ delivery EXCEPT !.at = "returned", !.ret = "False" ]
  /\ DeliveryStep

\* lines 868-890, one candidate: count() raises or finds nothing, click,
\* fill or type raises, or the draft is typed
ProbeInput ==
  /\ delivery.at = "input"
  /\ \E outcome \in { "raised", "absent", "untypable", "typed" } :
       LET to == after_probe(input_selectors, delivery.k, outcome = "typed")
           probed == IF outcome = "typed"
                     THEN [ delivery EXCEPT !.typed_by = "selector",
                                            !.typed_k = delivery.k ]
                     ELSE delivery
       IN  delivery' =
             IF to = "next" THEN [ probed EXCEPT !.k = @ + 1 ]
             ELSE IF probed.typed_by = "none"
                  THEN [ probed EXCEPT !.at = "script" ]
                  ELSE [ probed EXCEPT !.at = after_input(TRUE), !.k = 1 ]
  /\ DeliveryStep

\* lines 892-948: the debugging output, then the script that sets the text
ScriptFallback ==
  /\ delivery.at = "script"
  /\ \E outcome \in { "debug_failed", "script_raised", "not_found", "set" } :
       LET to == after_input(outcome = "set")
       IN  delivery' =
             IF to = "returned"
             THEN [ delivery EXCEPT !.at = "returned", !.ret = "False" ]
             ELSE [ delivery EXCEPT !.at = to, !.k = 1,
                                    !.typed_by = IF outcome = "set"
                                                 THEN "script" ELSE "none" ]
  /\ DeliveryStep

\* lines 963-975, one candidate
ProbeSend ==
  /\ delivery.at = "send"
  /\ \E outcome \in { "raised", "absent", "clicked" } :
       LET to == after_probe(send_button_selectors, delivery.k,
                             outcome = "clicked")
           probed == IF outcome = "clicked"
                     THEN [ delivery EXCEPT !.clicked_k = delivery.k ]
                     ELSE delivery
       IN  delivery' =
             IF to = "next" THEN [ probed EXCEPT !.k = @ + 1 ]
             ELSE [ probed EXCEPT !.at = IF probed.clicked_k > 0
                                         THEN "finish" ELSE "enter" ]
  /\ DeliveryStep

\* lines 977-986
PressEnter ==
  /\ delivery.at = "enter"
  /\ \E pressed \in BOOLEAN :
       delivery' = [ delivery EXCEPT !.enter = IF pressed THEN "pressed"
                                               ELSE "failed",
                                     !.at = "finish" ]
  /\ DeliveryStep

\* lines 988-995
FinishDelivery ==
  /\ delivery.at = "finish"
  /\ delivery' = [ delivery EXCEPT
                     !.at = "returned",
                     !.ret = PyBool(delivery_result(SendClicked, InputFound)) ]
  /\ DeliveryStep

DeliveryNext ==
  \/ WaitContainer \/ ProbeInput \/ ScriptFallback
  \/ ProbeSend \/ PressEnter \/ FinishDelivery

DeliverySpec == DeliveryInit /\ [][DeliveryNext]_vars

(***************************************************************************)
(* The scheduler (scheduled_agent_playwright.py:22-63).  Time is counted   *)
(* in minutes.  A run of the agent takes up to MaxRunMinutes; the clock    *)
(* stops at MaxMinutes.                                                    *)
(***************************************************************************)
MaxMinutes == 6
MaxRunMinutes == 3

\* line 30: CHECK_INTERVAL_MINUTES
CheckIntervals == { 1, 2 }

\* lines 22-29: ACTIVE_START_HOUR and ACTIVE_END_HOUR, the defaults among them
ActiveWindows == { << 8, 20 >>, << 9, 17 >> }

\* datetime.now().hour at a trigger: the hours around the ends of the windows
Hours == { 7, 8, 16, 17, 19, 20 }

\* variant of is_active_hour whose window includes the end hour
is_active_hour_to_end(start_hour, end_hour, current_hour) ==
  start_hour <= current_hour /\ current_hour <= end_hour

\* lines 32-35
is_active_hour(start_hour, end_hour, current_hour) ==
  start_hour <= current_hour /\ current_hour < end_hour

\* how long check_linkedin_messages takes (lines 37-46): nothing outside
\* the active hours, the duration of agent.run() within
RunMinutes(active) == IF active THEN 0..MaxRunMinutes ELSE { 0 }

\* the tasks of line 55 that have not finished
RunsInProgress == { k \in DOMAIN sched.tasks : sched.tasks[k] > 0 }

\* line 55: the job is registered, its first run is due one interval on
SchedulerInit ==
  /\ cl_text = "" /\ cl_result = NoResult /\ lang_result = ""
  /\ IdleGenerator
  /\ openai_api_key = FALSE /\ openai_client = FALSE
  /\ TriageLocalsIdle /\ detected = << >> /\ pc = "done"
  /\ restored = NoRestore /\ RerunIdle
  /\ delivery = NoDelivery /\ login = NoLogin /\ probe = NoProbe
  /\ \E interval \in CheckIntervals : \E window \in ActiveWindows :
       sched = [ at |-> "first", check_interval |-> interval,
                 start_hour |-> window[1], end_hour |-> window[2],
                 now |-> 0, next_run |-> interval, tasks |-> << >>,
                 current_hour |-> -1, agent |-> FALSE ]

SchedulerStep ==
  UNCHANGED << cl_text, cl_result, lang_result, generator, detected,
               restored, rerun, delivery, login, probe, config, triage >>

\* line 58: main awaits the first check itself; the loop of line 61 begins
\* when it has returned.  Within the active hours the check creates an
\* agent and runs it (lines 45-46).
FirstCheck ==
  /\ sched.at = "first"
  /\ \E hour \in Hours :
       LET active == is_active_hour(sched.start_hour, sched.end_hour, hour)
       IN  \E took \in RunMinutes(active) :
              sched' = [ sched EXCEPT !.at = "loop", !.now = @ + took,
                                      !.current_hour = hour, !.agent = active ]
  /\ SchedulerStep

\* line 62 with the job due: the job of line 55 creates a task for
\* check_linkedin_messages and returns; the job is due again one interval on
RunPending ==
  /\ sched.at = "loop"
  /\ sched.now >= sched.next_run
  /\ \E hour \in Hours :
       LET active == is_active_hour(sched.start_hour, sched.end_hour, hour)
       IN  \E takes \in RunMinutes(active) :
              sched' = [ sched EXCEPT
                           !.tasks = Append(@, takes),
                           !.next_run = sched.now + sched.check_interval,
                           !.current_hour = hour, !.agent = active ]
  /\ SchedulerStep

\* line 63, a minute of it: the loop sleeps and the tasks get on
Sleep ==
  /\ sched.at = "loop"
  /\ sched.now < sched.next_run
  /\ sched.now < MaxMinutes
  /\ sched' = [ sched EXCEPT
                  !.now = @ + 1,
                  !.tasks = [ k \in DOMAIN @ |-> IF @[k] > 0 THEN @[k] - 1 ELSE 0 ] ]
  /\ SchedulerStep

SchedulerNext == FirstCheck \/ RunPending \/ Sleep
SchedulerSpec == SchedulerInit /\ [][SchedulerNext]_vars

(***************************************************************************)
(* Construction and login (linkedin_agent_playwright.py:36-73, 140-276).   *)
(* The environment says whether LINKEDIN_EMAIL and LINKEDIN_PASSWORD are   *)
(* set and whether NON_INTERACTIVE is true; linkedin_cookies.json is       *)
(* missing, unreadable, expired (loads, the site shows no authenticated    *)
(* marker) or valid (loads, the site shows the marker).                    *)
(***************************************************************************)
CookieFiles == { "missing", "unreadable", "expired", "valid" }

\* lines 66: `not self.email or not self.password`
credentials_missing(email, password) == ~email \/ ~password

LoginInit ==
  /\ cl_text = "" /\ cl_result = NoResult /\ lang_result = ""
  /\ IdleGenerator
  /\ openai_api_key = FALSE /\ openai_client = FALSE
  /\ TriageLocalsIdle /\ detected = << >> /\ pc = "done"
  /\ restored = NoRestore /\ RerunIdle
  /\ delivery = NoDelivery /\ sched = NoSched /\ probe = NoProbe
  /\ \E email \in BOOLEAN, password \in BOOLEAN, unattended \in BOOLEAN,
        file \in CookieFiles :
       login = [ at |-> "init", email |-> email, password |-> password,
                 non_interactive |-> unattended, cookies_file |-> file,
                 prompted |-> FALSE, cookies |-> "none",
                 feed_gotos |-> 0, credential_login |-> FALSE,
                 ret |-> "none", status |-> 0,
                 checked |-> FALSE, cleanups |-> 0 ]

LoginStep ==
  UNCHANGED << cl_text, cl_result, lang_result, generator, detected,
               restored, rerun, delivery, sched, probe, config, triage >>

\* lines 66-73: without the credential pair __init__ exits with status 1 in
\* non-interactive mode and asks for the pair otherwise
Construct ==
  /\ login.at = "init"
  /\ IF credentials_missing(login.email, login.password)
     THEN IF login.non_interactive
          THEN login' = [ login EXCEPT !.at = "exited", !.status = 1 ]
          ELSE login' = [ login EXCEPT !.at = "setup", !.prompted = TRUE,
                                       !.email = TRUE, !.password = TRUE ]
     ELSE login' = [ login EXCEPT !.at = "setup" ]
  /\ LoginStep

\* run, lines 1305-1307: setup_browser (lines 75-120); what it raises is
\* handled at line 1359
SetupBrowser ==
  /\ login.at = "setup"
  /\ \E launched \in BOOLEAN :
       login' = [ login EXCEPT !.at = IF launched THEN "login" ELSE "error" ]
  /\ LoginStep

\* line 148: os.path.exists(cookies_file); lines 188-191 without the file
FindCookies ==
  /\ login.at = "login"
  /\ login' = [ login EXCEPT
                  !.at = IF login.cookies_file = "missing" THEN "home" ELSE "load" ]
  /\ LoginStep

\* lines 151-161: json.load and add_cookies; what they raise is handled at
\* line 185 and falls through to the credential login of line 198
LoadCookies ==
  /\ login.at = "load"
  /\ \E added \in BOOLEAN :
       IF login.cookies_file = "unreadable" \/ ~added
       THEN login' = [ login EXCEPT !.at = "home", !.cookies = "not_loaded" ]
       ELSE login' = [ login EXCEPT !.at = "feed", !.cookies = "loaded" ]
  /\ LoginStep

\* lines 165-183: the one page.goto of the feed (line 167, 60 seconds); a
\* failure returns False (line 183)
NavigateFeed ==
  /\ login.at = "feed"
  /\ \E arrived \in BOOLEAN :
       IF arrived
       THEN login' = [ login EXCEPT !.at = "marker", !.feed_gotos = @ + 1 ]
       ELSE login' = [ login EXCEPT !.at = "returned", !.ret = "False",
                                    !.feed_gotos = @ + 1,
                                    !.cookies = "navigation_failed" ]
  /\ LoginStep

\* lines 173-179: the authenticated marker; its absence returns False
CheckMarker ==
  /\ login.at = "marker"
  /\ IF login.cookies_file = "valid"
     THEN login' = [ login EXCEPT !.at = "returned", !.ret = "True",
                                  !.cookies = "authenticated" ]
     ELSE login' = [ login EXCEPT !.at = "returned", !.ret = "False",
                                  !.cookies = "marker_absent" ]
  /\ LoginStep

\* lines 198-199: the credential login begins; a failed navigation is
\* handled at line 271
GotoHome ==
  /\ login.at = "home"
  /\ \E arrived \in BOOLEAN :
       login' = [ login EXCEPT !.credential_login = TRUE,
                    !.at = IF arrived THEN "form" ELSE "returned",
                    !.ret = IF arrived THEN "none" ELSE "False" ]
  /\ LoginStep

\* lines 203-234: sign-in button (optional), the form, submit, the wait for
\* the marker; any failure is handled at line 267
LoginForm ==
  /\ login.at = "form"
  /\ \E submitted \in BOOLEAN :
       login' = [ login EXCEPT
                    !.at = IF submitted THEN "verify" ELSE "returned",
                    !.ret = IF submitted THEN "none" ELSE "False" ]
  /\ LoginStep

\* lines 237-266: with a PIN asked for, Prompt.ask waits for the operator
\* (line 240); otherwise the marker decides, and a successful login writes
\* the cookie file (lines 258-260)
Verify ==
  /\ login.at = "verify"
  /\ \E pin \in BOOLEAN, marker \in BOOLEAN :
       IF pin
       THEN login' = [ login EXCEPT !.at = "pin" ]
       ELSE IF marker
            THEN login' = [ login EXCEPT !.at = "returned", !.ret = "True",
                                         !.cookies_file = "valid" ]
            ELSE login' = [ login EXCEPT !.at = "returned", !.ret = "False" ]
  /\ LoginStep

\* the operator answers the prompt of line 240 or ends the input: line 243
\* awaits a locator, which raises, or Prompt.ask raised; both are handled
\* at line 267
PinEntered ==
  /\ login.at = "pin"
  /\ login' = [ login EXCEPT !.at = "returned", !.ret = "False" ]
  /\ LoginStep

\* run, lines 1309-1334: login's result is not looked at; check_messages
\* is called, and what it raises is handled at line 1326.  With an operator
\* present it may come to wait in the Prompt.ask of line 568.
CheckMessages ==
  /\ login.at = "returned"
  /\ \E outcome \in { "returned", "raised", "edit_prompt" } :
       /\ outcome = "edit_prompt" => ~login.non_interactive
       /\ login' = [ login EXCEPT
                       !.checked = TRUE,
                       !.at = IF outcome = "edit_prompt" THEN "edit_prompt"
                              ELSE "final_wait" ]
  /\ LoginStep

\* the operator answers the prompt of line 568 or ends the input, and
\* check_messages goes on to its end
EditEntered ==
  /\ login.at = "edit_prompt"
  /\ login' = [ login EXCEPT !.at = "final_wait" ]
  /\ LoginStep

\* run, lines 1336-1357: the wait for Enter, 60 seconds at most; what it
\* raises is handled at line 1359
FinalWait ==
  /\ login.at = "final_wait"
  /\ \E raised \in BOOLEAN :
       login' = [ login EXCEPT !.at = IF raised THEN "error" ELSE "cleanup" ]
  /\ LoginStep

\* run, lines 1359-1375: the handler reports, takes a screenshot and
\* sleeps 30 seconds
ErrorPause ==
  /\ login.at = "error"
  /\ login' = [ login EXCEPT !.at = "cleanup" ]
  /\ LoginStep

\* run, lines 1377-1390: the finally clause calls cleanup
Cleanup ==
  /\ login.at = "cleanup"
  /\ login' = [ login EXCEPT !.at = "ended", !.cleanups = @ + 1 ]
  /\ LoginStep

\* the steps of the program, and those of the operator at a prompt
ProgramNext ==
  \/ Construct \/ SetupBrowser
  \/ FindCookies \/ LoadCookies \/ NavigateFeed \/ CheckMarker
  \/ GotoHome \/ LoginForm \/ Verify
  \/ CheckMessages \/ FinalWait \/ ErrorPause \/ Cleanup

LoginNext == ProgramNext \/ PinEntered \/ EditEntered

LoginSpec == LoginInit /\ [][LoginNext]_vars

\* the program takes its steps; the operator may never answer
LoginFairSpec == LoginSpec /\ WF_vars(ProgramNext)

(***************************************************************************)
(* The selector candidate lists of check_messages (lines 296-370), one     *)
(* candidate at a step, followed by a delivery in a conversation of the    *)
(* listing that was found.  What the page does at each probe is chosen     *)
(* freely.                                                                 *)
(***************************************************************************)
\* lines 296-305
selectors ==
  << ".msg-conversations-container__conversations-list",
     ".msg-overlay-list-bubble",
     ".msg-conversation-listitem",
     ".msg-conversation-card",
     ".msg-selectable-entity",
     ".msg-thread",
     ".msg-thread-list",
     ".msg-s-message-list-container" >>

\* lines 345-351
conversation_selectors ==
  << ".msg-conversation-listitem",
     ".msg-conversation-card",
     ".msg-thread-list-item",
     ".msg-selectable-entity",
     "[data-control-name='overlay.conversation_item']" >>

ProbeInit ==
  /\ cl_text = "" /\ cl_result = NoResult /\ lang_result = ""
  /\ IdleGenerator
  /\ openai_api_key = FALSE /\ openai_client = FALSE
  /\ TriageLocalsIdle /\ detected = << >> /\ pc = "done"
  /\ restored = NoRestore /\ RerunIdle
  /\ delivery = NoDelivery /\ sched = NoSched /\ login = NoLogin
  /\ probe = [ at |-> "goto", k |-> 0, navigated |-> FALSE,
               interface_k |-> 0, items_k |-> 0, ret |-> "none",
               raised |-> FALSE ]

ProbeStep ==
  UNCHANGED << cl_text, cl_result, lang_result, generator, detected,
               restored, rerun, delivery, sched, login, config, triage >>

\* lines 283-312: the navigation, whose failure is only reported, and the
\* screenshot, likewise
OpenMessaging ==
  /\ probe.at = "goto"
  /\ \E arrived \in BOOLEAN :
       probe' = [ probe EXCEPT !.at = "interface", !.k = 1,
                               !.navigated = arrived ]
  /\ ProbeStep

\* lines 314-333, one candidate: wait_for_selector finds the element or
\* raises within three seconds; without any, check_messages returns []
ProbeInterface ==
  /\ probe.at = "interface"
  /\ \E outcome \in { "timeout", "found" } :
       LET to == after_probe(selectors, probe.k, outcome = "found")
           probed == IF outcome = "found"
                     THEN [ probe EXCEPT !.interface_k = probe.k ]
                     ELSE probe
       IN  probe' =
             IF to = "next" THEN [ probed EXCEPT !.k = @ + 1 ]
             ELSE IF probed.interface_k = 0
                  THEN [ probed EXCEPT !.at = "returned", !.ret = "[]" ]
                  ELSE [ probed EXCEPT !.at = "items", !.k = 1 ]
  /\ ProbeStep

\* lines 354-370, one candidate: locator(selector).all() raises, finds
\* nothing or finds the items; without any, check_messages returns []
ProbeItems ==
  /\ probe.at = "items"
  /\ \E outcome \in { "raised", "none", "items" } :
       LET to == after_probe(conversation_selectors, probe.k, outcome = "items")
           probed == IF outcome = "items"
                     THEN [ probe EXCEPT !.items_k = probe.k ]
                     ELSE probe
       IN  probe' =
             IF to = "next" THEN [ probed EXCEPT !.k = @ + 1 ]
             ELSE IF probed.items_k = 0
                  THEN [ probed EXCEPT !.at = "returned", !.ret = "[]" ]
                  ELSE [ probed EXCEPT !.at = "listed" ]
  /\ ProbeStep

\* lines 557, 572, 583: a reply is delivered in a conversation of the listing
StartDelivery ==
  /\ probe.at = "listed"
  /\ delivery = NoDelivery
  /\ delivery' = [ NoDelivery EXCEPT !.at = "container" ]
  /\ UNCHANGED << cl_text, cl_result, lang_result, generator, detected,
                  restored, rerun, sched, login, probe, config, triage >>

ProbeNext ==
  \/ OpenMessaging \/ ProbeInterface \/ ProbeItems \/ StartDelivery
  \/ DeliveryNext

ProbeSpec == ProbeInit /\ [][ProbeNext]_vars

(***************************************************************************)
(* One run of check_messages on a listing that changes while the loop is   *)
(* under way (lines 353-434).  The handles kept in unread_conversations    *)
(* come from locator(selector).all() (line 359): each stands for a         *)
(* position of the listing and is resolved against the listing as it is    *)
(* rendered when the handle is clicked (line 434).  A conversation that    *)
(* was replied to moves to the top of the listing, and so does a           *)
(* conversation in which a message arrives.                                *)
(***************************************************************************)
MaxArrivals == 1

\* the conversations listed when the run begins, and those that may appear
ListedConvs == { "anna", "ben", "cleo" }
NewConvs == << "nora", "omar", "pia" >>

RECURSIVE Orders(_)
Orders(convs) ==
  IF convs = { } THEN { << >> }
  ELSE UNION { { << conv >> \o rest : rest \in Orders(convs \ { conv }) } :
               conv \in convs }

\* the listing with conversation conv at its top
MoveToTop(order, conv) ==
  << conv >> \o SelectSeq(order, LAMBDA other : other # conv)

\* the page as rendered: the conversations in listing order, by position,
\* with the positions that show an unread mark
Rendered(order, unread, opened, replied, arrivals, loaded) ==
  [ order |-> order, unread |-> unread,
    listed |-> Len(order),
    marks |-> { position \in 1..Len(order) : order[position] \in unread },
    opened |-> opened, replied |-> replied, arrivals |-> arrivals,
    loaded |-> loaded ]

ListingInit ==
  /\ cl_text = "" /\ cl_result = NoResult /\ lang_result = ""
  /\ IdleGenerator
  /\ openai_api_key = FALSE /\ openai_client = FALSE
  /\ TriageLocalsIdle
  /\ restored = NoRestore /\ AuxIdle /\ detected = << >>
  /\ \E order \in Orders(ListedConvs) : \E unread \in SUBSET ListedConvs :
        page = Rendered(order, unread, << >>, << >>, 0, unread)
  /\ run = 1 /\ prior = NoPrior
  /\ pc = "start"

\* lines 423-600 for one handle: the click (line 434) opens the
\* conversation now at the handle's position, or fails; an opened
\* conversation loses its mark and is replied to (delivery True, lines
\* 557, 572, 583) or not; a replied conversation moves to the top
ListingCycle ==
  /\ pc = "open"
  /\ LET conv == page.order[unread_conversations[i]]
     IN  \E clicked \in BOOLEAN : \E sent \in BOOLEAN :
           /\ sent => clicked
           /\ page' = IF ~clicked THEN page
                      ELSE Rendered(IF sent THEN MoveToTop(page.order, conv)
                                    ELSE page.order,
                                    page.unread \ { conv },
                                    Append(page.opened, conv),
                                    IF sent THEN Append(page.replied, conv)
                                    ELSE page.replied,
                                    page.arrivals, page.loaded)
           /\ success' = IF sent THEN "True" ELSE "unset"
  /\ i' = i + 1
  /\ pc' = IF i < Len(unread_conversations) THEN "open" ELSE "done"
  /\ UNCHANGED << cl_text, cl_result, lang_result, generator, detected,
                  restored, run, prior, aux, config, stdin, typed,
                  unread_conversations, loopvars, action, outgoing,
                  gatevars, h >>

\* a message arrives while the loop is between two cycles: in a new
\* conversation or in a listed one, which then is unread and at the top
Arrive ==
  /\ pc = "open" /\ i > 1
  /\ page.arrivals < MaxArrivals
  /\ \E conv \in { NewConvs[page.arrivals + 1] } \cup ListedConvs :
       page' = Rendered(MoveToTop(page.order, conv),
                        page.unread \cup { conv },
                        page.opened, page.replied, page.arrivals + 1,
                        page.loaded)
  /\ UNCHANGED << cl_text, cl_result, lang_result, generator, detected,
                  restored, run, prior, aux, config, triage >>

ListingNext == Detect \/ LimitListing \/ ListingCycle \/ Arrive
ListingSpec == ListingInit /\ [][ListingNext]_vars

(***************************************************************************)
(* Properties of the triage loop and of the approval gate (Spec).          *)
(***************************************************************************)
Approving == { "send", "edit" }

\* the delivery calls made for the conversations 1..n
RECURSIVE DeliveryCalls(_)
DeliveryCalls(n) == IF n = 0 THEN 0 ELSE h[n].deliv + DeliveryCalls(n - 1)

\* C1: send_response_in_current_conversation is called for a conversation
\* only after the gate has returned "send" or "edit" for the draft of that
\* conversation in the same cycle, so the delivery calls of a run never
\* outnumber its send/edit decisions.
DeliveryOnlyAfterApproval ==
  /\ \A g \in Gates :
        h[g].deliv > 0 => h[g].gate > 0 /\ h[g].ret \in Approving
  /\ DeliveryCalls(MaxConvs) <= Cardinality({ g \in Gates : h[g].ret \in Approving })

\* the draft of the second conversation has been delivered on an "edit"
\* decision, the first conversation having been skipped
DeliveryAfterApprovalReached ==
  /\ ~auto_approve /\ i = 2 /\ pc = "restore"
  /\ h[1].ret = "skip" /\ h[1].deliv = 0
  /\ h[2].ret = "edit" /\ h[2].deliv = 1 /\ outgoing = response

\* the text of conversation g is empty or classified as not actionable
NotActionable(g) ==
  /\ g \in DOMAIN unread_conversations
  /\ h[g].extracted
  /\ \/ unread_conversations[g].text = ""
     \/ ~ClassifyTable[unread_conversations[g]][1]

\* the loop has left conversation g
Left(g) == i > g \/ pc = "done"

\* C2: for an opened conversation whose text is empty or not actionable the
\* loop calls neither generate_response nor the gate nor the delivery, and
\* return_to_conversation_list has been called for it when the loop goes on.
NoReplyWorkForNonActionable ==
  \A g \in Gates :
     NotActionable(g) =>
        /\ h[g].gen = 0 /\ h[g].gate = 0 /\ h[g].deliv = 0
        /\ Left(g) => h[g].restore >= 1

\* the loop has left a conversation with an empty text and one with a sales
\* pitch, and restored the list after each
NonActionableLeftReached ==
  \E g, k \in Gates :
     /\ NotActionable(g) /\ unread_conversations[g].text = "" /\ Left(g)
     /\ NotActionable(k) /\ unread_conversations[k].text # "" /\ Left(k)
     /\ h[g].restore = 1 /\ h[k].restore = 1

\* C3: with auto_approve set the gate returns "send" at once: no reader is
\* started, no cell is set up, no time is spent in a join, and what the
\* operator has typed is neither read nor of any influence.
AutoApproveReturnsSendAtOnce ==
  auto_approve =>
     /\ \A g \in Gates : reader[g].pc = "none" /\ gate_action[g] = "unset"
     /\ pc \notin { "gate_join", "gate_ret" }
     /\ elapsed = 0
     /\ \A g \in Gates : h[g].gate > 0 => h[g].ret = "send"
     /\ pc = "act" => action = "send" /\ wait.ret_typed = wait.call_typed

\* the gate has returned "send" under auto_approve although the operator
\* had typed a line before the call
AutoApproveReached ==
  /\ auto_approve /\ pc = "act" /\ action = "send"
  /\ wait.call_typed > 0 /\ stdin # << >>

\* C4: with auto_approve off the gate returns "send" only if the reader of
\* the call read 'a', "edit" only if it read 'e', and "skip" when the reader
\* got any other line (an empty one included) or a read error.
GateFollowsToken ==
  ~auto_approve =>
     \A g \in Gates :
        /\ h[g].ret = "send" => reader[g].user_input = "a"
        /\ h[g].ret = "edit" => reader[g].user_input = "e"
        /\ h[g].ret # "none" /\ reader[g].user_input \notin { "a", "e" }
              => h[g].ret = "skip"

\* one call has returned "edit" for the line " E", another "skip" after a
\* read error of its reader
GateFollowsTokenReached ==
  /\ ~auto_approve
  /\ \E g, k \in Gates :
       /\ h[g].ret = "edit" /\ reader[g].line = " E"
       /\ h[k].ret = "skip" /\ reader[k].user_input = ReadError

\* the gate call of the current conversation has returned
Returned == pc = "act" /\ ~auto_approve

\* C5: if nothing was typed before the deadline of the gate the gate returns
\* "skip", whatever the reader does between the deadline and the return.
\* The code does not ensure it: a token read after join has timed out and
\* before line 1454 is returned.
SkipWhenNothingTypedBeforeDeadline ==
  Returned /\ wait.dl_typed = 0 => action = "skip"

\* C6: a send (edit) token typed while the gate of the current draft waits,
\* before its deadline, makes that call return "send" ("edit"), also with
\* readers of earlier calls still blocked in input().  The code does not
\* ensure it: such a reader may take the line.
TokenTypedDuringWaitDecides ==
  Returned =>
     /\ wait.line # NoLine /\ Normalize(wait.line) = "a" => action = "send"
     /\ wait.line # NoLine /\ Normalize(wait.line) = "e" => action = "edit"

\* C7: when the operator types nothing the gate returns "skip", and not
\* before max(response_timeout, 120) seconds, however the reader ends.  The
\* code does not ensure it: join returns as soon as the reader has ended.
NoInputSkipsAfterFullWait ==
  Returned /\ wait.ret_typed = 0 =>
     action = "skip" /\ elapsed >= actual_timeout

\* the reader of call g assigns a cell in this step
ReaderWrites(g) == reader[g].pc = "got" /\ reader'[g].pc = "done"

\* C8: every gate call has a cell of its own, assigned at most once, by its
\* own reader; the gate reads it only after join has returned (reader ended
\* or timeout); a write of a reader changes no other call's cell and no
\* decision that has been returned.
OwnCellPerCall ==
  /\ [](\A g \in Gates :
          /\ h[g].writes <= 1
          /\ gate_action[g] \in Approving =>
                gate_action[g] = decide(reader[g].user_input, "skip"))
  /\ [](Returned =>
          /\ wait.unblocked
          /\ reader[i].pc = "done" \/ elapsed >= actual_timeout)
  /\ [][\A g \in Gates :
          ReaderWrites(g) =>
             /\ \A k \in Gates \ { g } : gate_action'[k] = gate_action[k]
             /\ action' = action
             /\ \A k \in Gates : h'[k].ret = h[k].ret]_vars

\* a reader abandoned by a call that returned "skip" has assigned its cell
\* afterwards, and a later call has returned its own decision
LateWriteReached ==
  \E g, k \in Gates :
     /\ g < k
     /\ h[g].ret = "skip" /\ gate_action[g] \in Approving
     /\ h[k].ret = "skip" /\ gate_action[k] = "skip" /\ reader[k].pc = "done"

(***************************************************************************)
(* Properties of classify_message (ClassifySpec), stated on the text.      *)
(***************************************************************************)
Classified == cl_result # NoResult

\* what the classifier's verdict depends on: the number of entries of each
\* keyword list (in the order of TypeOrder) and of the technology terms
\* that occur in the lowered text, the presence of a recruiter signature
\* and of a job phrase, the length
Facts(text) ==
  LET low == Lower(text)
  IN  [ raw    |-> [ n \in DOMAIN TypeOrder |->
                       CountIn(message_types[TypeOrder[n]], low) ],
        tech   |-> CountIn(tech_terms, low),
        signed |-> \E n \in DOMAIN recruiter_indicators :
                      Contains(recruiter_indicators[n], low),
        phrase |-> \E n \in DOMAIN job_phrases : Contains(job_phrases[n], low),
        len    |-> Len(text) ]

\* score of the n-th category: the raw count, and for the two job
\* categories 2 for a text longer than 500, 3 for a signature and 1 for a
\* job phrase
Score(f, n) ==
  f.raw[n]
  + IF TypeOrder[n] \in JobTypes
    THEN (IF f.len > 500 THEN 2 ELSE 0)
         + (IF f.signed THEN 3 ELSE 0)
         + (IF f.phrase THEN 1 ELSE 0)
    ELSE 0

TopScore(f) ==
  CHOOSE s \in { Score(f, n) : n \in DOMAIN TypeOrder } :
     \A n \in DOMAIN TypeOrder : Score(f, n) <= s

\* the first category of the list with the highest score, general_message
\* when no category scores
Winner(f) ==
  IF TopScore(f) = 0 THEN "general_message"
  ELSE TypeOrder[CHOOSE n \in DOMAIN TypeOrder :
                    /\ Score(f, n) = TopScore(f)
                    /\ \A m \in 1..(n - 1) : Score(f, m) < TopScore(f)]

\* the signature override: technical_recruiter with a score of at least 5
WinnerAfterOverride(f) == IF f.signed THEN "technical_recruiter" ELSE Winner(f)
EffectiveScore(f) == IF f.signed /\ TopScore(f) < 5 THEN 5 ELSE TopScore(f)

PrimaryActionable(f) ==
  WinnerAfterOverride(f) \in JobTypes /\ EffectiveScore(f) >= 3

SecondaryActionable(f) ==
  ~PrimaryActionable(f) /\ f.tech >= 2 /\ f.len > 300

SignedTechnicalIsRecruiter ==
  Classified =>
     LET f == Facts(cl_text)
     IN  f.signed /\ f.raw[2] >= 2 =>
            cl_result = << TRUE, "technical_recruiter" >>

\* a signed text with 2 technical_recruiter keywords whose job_offer score
\* is the higher one has been classified as technical_recruiter
SignedTechnicalReached ==
  /\ Classified
  /\ cl_text = "position DevOps Engineer recruiter"
  /\ Facts(cl_text).signed
  /\ Facts(cl_text).raw[2] = 2 /\ Facts(cl_text).raw[1] = 3
  /\ cl_result = << TRUE, "technical_recruiter" >>

IndicatorsIn(text) ==
  LET low == Lower(text)
  IN  { w \in { german_indicators[k] : k \in DOMAIN german_indicators } :
          Contains(w, low) }

\* C13: detect_language returns 'de' exactly when at least three distinct
\* German-indicator entries occur in the lower-cased text, and 'en'
\* otherwise; a text with exactly two of them is 'en'.
GermanIffThreeIndicators ==
  lang_result # "" =>
    LET n == Cardinality(IndicatorsIn(cl_text))
    IN  /\ lang_result \in { "de", "en" }
        /\ lang_result = "de" <=> n >= 3
        /\ n = 2 => lang_result = "en"

\* texts with exactly two and with exactly three distinct indicators have
\* been judged: "Guten Montag Guten" is English, "Hallo Guten Montag" German
TwoIndicatorsReached ==
  /\ cl_text = "Guten Montag Guten"
  /\ Cardinality(IndicatorsIn(cl_text)) = 2
  /\ lang_result = "en"

(***************************************************************************)
(* Properties of response generation (GeneratorSpec).                      *)
(***************************************************************************)
\* the template texts by language and by category of the message
TemplatesIn(lang) ==
  IF lang = "de"
  THEN { GermanJobTemplate, GermanSalesTemplate, GermanGeneralTemplate }
  ELSE { EnglishJobTemplate, EnglishSalesTemplate, EnglishGeneralTemplate }

TemplatesOf(category) ==
  IF category \in { "job_offer", "technical_recruiter" }
  THEN { GermanJobTemplate, EnglishJobTemplate }
  ELSE IF category = "sales_pitch"
       THEN { GermanSalesTemplate, EnglishSalesTemplate }
       ELSE { GermanGeneralTemplate, EnglishGeneralTemplate }

Filled(template, sender_name) == template[1] \o sender_name \o template[2]

\* the generation tier of the last generate_response call did not deliver:
\* there is no credential, no client, or the external call raised
GenerationFailed ==
  /\ gen_call.method = "generate_response"
  /\ ~openai_api_key \/ ~openai_client \/ gen_call.api = "raise"

\* C14: when the generation tier fails, generate_response returns normally a
\* non-empty contextual-template reply, in the language detect_language
\* gives for the message and from the template of the category
\* classify_message gives for it.
FailedGenerationFallsBack ==
  GenerationFailed =>
    LET reply == gen_call.result[2]
        lang == GenLanguage[gen_call.text]
        category == GenClassify[gen_call.text][2]
    IN  /\ reply.tier = "ContextualTemplate"
        /\ Strip(reply.body) # ""
        /\ \E template \in TemplatesIn(lang) \cap TemplatesOf(category) :
              reply.body = Filled(template, Sender)

\* the external call raised on a German sales pitch and the German sales
\* template came back
RaisedCallFellBackReached ==
  /\ openai_api_key /\ openai_client
  /\ gen_call.method = "generate_response" /\ gen_call.api = "raise"
  /\ GenLanguage[gen_call.text] = "de"
  /\ GenClassify[gen_call.text][2] = "sales_pitch"
  /\ gen_call.result[2].body = Filled(GermanSalesTemplate, Sender)

\* C15: an empty result of the external call counts as a failed generation:
\* the reply generate_response returns is never empty or made of blanks only.
ReplyNeverBlank ==
  gen_call.method = "generate_response" =>
    Strip(gen_call.result[2].body) # ""

\* what the contextual reply to each text of the harness says: its
\* language, and which questions it asks
ReplyFacts ==
  [ t \in GenTexts |->
      LET body == GenContextual[t][2].body
          low == Lower(body)
      IN  [ german |-> Contains("vielen Dank", body),
            english |-> Contains("Thank you", body),
            salary |-> Contains("salary range", low) \/ Contains("gehaltsbereich", low),
            rounds |-> Contains("interview rounds", low) \/ Contains("interview-runden", low),
            remote |-> Contains("100% remote", low),
            product |-> Contains("your product", low) \/ Contains("ihr produkt", low),
            context |-> Contains("more context", low) \/ Contains("mehr kontext", low) ] ]

\* categories that are answered with the same template
SameTemplateGroup(c1, c2) ==
  LET job == { "job_offer", "technical_recruiter" }
      other == { "networking", "general_message" }
  IN  c1 = c2 \/ { c1, c2 } \subseteq job \/ { c1, c2 } \subseteq other

\* C16: generate_contextual_response answers every (category, language)
\* pair: job_offer and technical_recruiter with one template per language
\* that asks for salary, interview rounds and remote work, sales_pitch with
\* a template of its own, every other category with the general template,
\* in German for 'de' and in English for 'en'.
ContextualReplyByCategoryAndLanguage ==
  gen_call.method = "generate_contextual_response" =>
    LET said == ReplyFacts[gen_call.text]
        lang == GenLanguage[gen_call.text]
        category == GenClassify[gen_call.text][2]
        reply == gen_call.result[2]
    IN  /\ reply.tier = "ContextualTemplate" /\ reply.body # ""
        /\ gen_call.result[1] = GenClassify[gen_call.text][1]
        /\ said.german <=> lang = "de"
        /\ said.english <=> lang = "en"
        /\ (said.salary /\ said.rounds /\ said.remote)
              <=> category \in { "job_offer", "technical_recruiter" }
        /\ (said.salary \/ said.rounds \/ said.remote)
              => category \in { "job_offer", "technical_recruiter" }
        /\ said.product <=> category = "sales_pitch"
        /\ said.context <=> category \in { "networking", "general_message" }
        /\ \A u \in GenTexts :
              (GenContextual[u][2].body = reply.body)
                 <=> /\ GenLanguage[u] = lang
                     /\ SameTemplateGroup(GenClassify[u][2], category)

\* the German reply to a technical recruiter has been produced; it is the
\* reply to a German job offer
GermanRecruiterReplyReached ==
  /\ gen_call.method = "generate_contextual_response"
  /\ GenLanguage[gen_call.text] = "de"
  /\ GenClassify[gen_call.text][2] = "technical_recruiter"
  /\ gen_call.result[2].body = Filled(GermanJobTemplate, Sender)
  /\ ReplyFacts[gen_call.text].salary

\* C17: for every category and every template store, the default one or
\* one loaded from the file, generate_template_response returns an entry of
\* the store's list for the category when that list is not empty, and the
\* first entry of the job_offer list otherwise.
TemplateFromStoreOrFirstJobOffer ==
  gen_call.method = "generate_template_response" =>
    /\ ~gen_call.result.raised
    /\ IF gen_call.mtype \in DOMAIN templates /\ templates[gen_call.mtype] # << >>
       THEN \E p \in DOMAIN templates[gen_call.mtype] :
               gen_call.result.value = templates[gen_call.mtype][p]
       ELSE gen_call.result.value = templates["job_offer"][1]

(***************************************************************************)
(* Properties of one run over a long listing (CapSpec).                    *)
(***************************************************************************)
\* the step that opens a conversation, and the step that replies in it
Opens == pc = "open" /\ pc' = "cycle"
Replies == pc = "cycle" /\ success' = "True"

\* C18: in one run at most 20 conversations are opened: the first 20 of
\* those detected as unread, in listing order; no conversation beyond the
\* 20th is opened or replied to.
OnlyFirstTwentyOpened ==
  [][ /\ (Opens \/ Replies) =>
           /\ i \in 1..20 /\ i <= Len(detected)
           /\ unread_conversations[i] = detected[i]
      /\ i' # i => /\ i' = i + 1
                   /\ pc \in { "listed", "restore", "except" }
      /\ pc' = "open" => pc \in { "listed", "restore", "except" } /\ i' # i
    ]_vars

\* a run over 21 unread conversations has ended after the 20th, which was
\* replied to; the third conversation of the listing bore no unread mark
ExcessLeftReached ==
  /\ Len(detected) = 21 /\ detected[3] = 4
  /\ i = 20 /\ pc = "restore" /\ success = "True"
  /\ Len(unread_conversations) = 20

(***************************************************************************)
(* Properties of the list view in the triage loop (Spec).                  *)
(***************************************************************************)
\* the step that ends a conversation cycle: the loop moves to the next
\* handle or leaves
CycleEnds == pc # "open" /\ pc' \in { "open", "done" }

\* C19: every conversation cycle, whatever its outcome, ends with an
\* attempt of return_to_conversation_list before the next conversation is
\* opened, and a cycle opens one conversation only.
RestoreBeforeNextConversation ==
  [][ /\ CycleEnds => h'[i].restore = h[i].restore + 1
      /\ \A g \in Gates :
            (h'[g].extracted /\ ~h[g].extracted) =>
               /\ g = i /\ pc = "open" /\ h[g].restore = 0
               /\ \A k \in 1..(g - 1) : h[k].restore = 1
    ]_vars

\* the first cycle ended by an exception before its conversation was read,
\* the list was restored, and the second conversation has been opened
SecondOpenedAfterRestoreReached ==
  /\ i = 2 /\ h[2].extracted /\ h[2].restore = 0
  /\ ~h[1].extracted /\ h[1].restore = 1

\* C20: a handle obtained from the listing before a list-view restore is
\* not used to open a conversation after that restore: when the loop clicks
\* handle i, no restore has been made since the handle was obtained.
HandleFreshWhenOpened ==
  [][ (pc = "open" /\ pc' # "open") =>
         restores(Len(unread_conversations)) = obtained_after(i) ]_vars

\* C21: an exception in a conversation cycle does not end the run: the
\* handler attempts a restore and the loop goes on to the next handle, so
\* the run ends only behind the last handle; a restore that fails raises
\* nothing and has navigated to the messaging page directly.
ExceptionDoesNotEndRun ==
  [][ /\ pc = "except" =>
           /\ restored'.handler /\ restored'.out.ret \in { "True", "False" }
           /\ IF i < Len(unread_conversations)
              THEN i' = i + 1 /\ pc' = "open"
              ELSE pc' = "done"
      /\ pc' = "done" => i = Len(unread_conversations)
      /\ restored' # restored =>
           /\ ~restored'.out.raised
           /\ restored'.out.ret = "False" => restored'.out.direct
    ]_vars

\* the first cycle ended in the handler, whose restore failed, and the
\* second conversation has been opened and replied to
ProcessedAfterFailedRestoreReached ==
  /\ i = 2 /\ pc = "restore" /\ success = "True"
  /\ restored.handler /\ restored.out.ret = "False" /\ restored.out.direct

(***************************************************************************)
(* Properties of two runs in succession (RerunSpec).                       *)
(***************************************************************************)
\* the second run has its list of conversations to process
SecondRunListed == run = 2 /\ pc \notin { "start", "listed" }

\* C22: with no message arriving in between, the second of two runs in
\* succession processes no conversation, however many were unread before
\* the first.
SecondRunProcessesNothing ==
  SecondRunListed => unread_conversations = << >>

\* C22, amended: the second run processes the conversations the first run
\* left unopened, up to 20 of them; it processes none when at most 20 were
\* unread before the first run and the first run opened every one.
SecondRunProcessesLeftovers ==
  SecondRunListed =>
    LET left == prior.unread - prior.opened
    IN  /\ Len(unread_conversations) = IF left < 20 THEN left ELSE 20
        /\ (prior.unread <= 20 /\ prior.opened = prior.unread)
              => unread_conversations = << >>
        /\ prior.unread > 20 => unread_conversations # << >>

\* twenty conversations were unread, the first run opened all of them and
\* the second run has ended without a conversation to process
NothingLeftReached ==
  /\ run = 2 /\ pc = "done"
  /\ prior.unread = 20 /\ prior.opened = 20
  /\ page.marks = { } /\ unread_conversations = << >>

(***************************************************************************)
(* Properties of the delivery call (DeliverySpec).                         *)
(***************************************************************************)
\* C23: send_response_in_current_conversation returns true exactly when
\* the draft was written into a reply input and then a send control was
\* clicked or the Enter key was pressed; with neither click nor keystroke
\* it returns false.
TrueIffTypedAndSent ==
  delivery.at = "returned" =>
    (delivery.ret = "True" <=> (InputFound /\ SendClicked))

OneRunAtATime ==
  Cardinality(RunsInProgress) <= 1

\* C26: when the cookie file exists but using it does not reach the
\* authenticated state (the cookies were loaded and the marker is absent, or
\* the navigation failed), login goes on to the credential login in the same
\* run and does not report the failure.
FailedCookieLoginFallsBack ==
  (login.at \in { "home", "form", "verify", "returned" }
     /\ login.cookies \in { "not_loaded", "marker_absent", "navigation_failed" })
    => login.credential_login \/ login.at = "home"

\* C27: without the credential pair in non-interactive mode the process
\* exits only if the cookie file cannot authenticate either; with a valid
\* cookie file the run goes on to the cookie login.
ExitsOnlyWithoutValidCookies ==
  login.at = "exited" => login.cookies_file # "valid"

\* one step of the loop over a candidate list, seen from outside: the loop
\* is at `before` and then at `after` (0 outside the loop), `found` is the
\* candidate that succeeded (0 for none), `size` the length of the list
InOrderFirstWins(inside, inside_after, before, after, found_after, size) ==
  /\ (~inside /\ inside_after) => after = 1 /\ found_after = 0
  /\ (inside /\ inside_after) => after = before + 1 /\ found_after = 0
  /\ (inside /\ ~inside_after) =>
       \/ found_after = before
       \/ found_after = 0 /\ before = size

\* C28: in each of the four candidate lists (messaging interface,
\* conversation items, reply input, send control) the candidates are probed
\* in list order from the first, the first that succeeds ends the loop, and
\* a list without a success ends after its last candidate with a not-found
\* outcome (the empty listing, the script fallback, the Enter key), never
\* with an exception.
CandidatesInOrderFirstWins ==
  [][ /\ InOrderFirstWins(probe.at = "interface", probe'.at = "interface",
                          probe.k, probe'.k, probe'.interface_k, Len(selectors))
      /\ InOrderFirstWins(probe.at = "items", probe'.at = "items",
                          probe.k, probe'.k, probe'.items_k,
                          Len(conversation_selectors))
      /\ InOrderFirstWins(delivery.at = "input", delivery'.at = "input",
                          delivery.k, delivery'.k, delivery'.typed_k,
                          Len(input_selectors))
      /\ InOrderFirstWins(delivery.at = "send", delivery'.at = "send",
                          delivery.k, delivery'.k, delivery'.clicked_k,
                          Len(send_button_selectors))
      /\ (probe.at \in { "interface", "items" } /\ probe'.at = "returned")
           => probe'.ret = "[]" /\ ~probe'.raised
      /\ (delivery.at = "input" /\ delivery'.at # "input"
            /\ delivery'.typed_k = 0)
           => delivery'.at = "script" /\ ~delivery'.raised
      /\ (delivery.at = "send" /\ delivery'.at # "send"
            /\ delivery'.clicked_k = 0)
           => delivery'.at = "enter" /\ ~delivery'.raised
    ]_vars

LaterCandidatesUsedReached ==
  /\ probe.interface_k = 2 /\ probe.items_k = 3
  /\ delivery.typed_k = 2 /\ delivery.clicked_k = 4
  /\ delivery.at = "returned"

\* the cycle of conversation g is over
CycleOver(g) == g < i \/ pc = "done"

\* the stages conversation g has been through appear in the order of the
\* loop body: extraction and classification, the draft, the gate, the
\* delivery, the restore of the list view
StagesInOrder(g) ==
  /\ h[g].gen > 0 => h[g].extracted
  /\ h[g].gate > 0 => h[g].gen > 0
  /\ h[g].ret # "none" => h[g].gate > 0
  /\ h[g].deliv > 0 => h[g].ret \in { "send", "edit" }
  /\ h[g].restore > 0 <=> CycleOver(g)
  /\ g > i => h[g] = NoHistory
  /\ h[g].gen <= 1 /\ h[g].gate <= 1 /\ h[g].restore <= 1

\* C29: every cycle goes through opening, extraction and classification,
\* then for an actionable message the draft, the gate and the delivery, and
\* ends with the restore of the list view; a cycle makes at most one
\* delivery call, none when the gate says skip, and none when the edited
\* text cannot be read (end of file at the prompt).
CycleStagesInOrder ==
  /\ [](\A g \in 1..Len(unread_conversations) :
          /\ StagesInOrder(g)
          /\ h[g].deliv <= 1
          /\ h[g].ret = "skip" => h[g].deliv = 0)
  /\ [][ /\ (pc = "act" /\ pc' # "act" /\ action = "edit" /\ ~non_interactive
               /\ stdin = << >>)
            => (h'[i].deliv = 0 /\ pc' = "restore")
         /\ \A g \in 1..Len(unread_conversations) :
              h[g].restore > 0 =>
                /\ h'[g].extracted = h[g].extracted /\ h'[g].gen = h[g].gen
                /\ h'[g].gate = h[g].gate /\ h'[g].ret = h[g].ret
                /\ h'[g].deliv = h[g].deliv /\ h'[g].restore = h[g].restore
       ]_vars

SentThenSkippedReached ==
  /\ Len(unread_conversations) = 2 /\ pc = "done"
  /\ h[1].extracted /\ h[1].gen = 1 /\ h[1].gate = 1 /\ h[1].ret = "send"
  /\ h[1].deliv = 1 /\ h[1].restore = 1
  /\ h[2].gate = 1 /\ h[2].ret = "skip" /\ h[2].deliv = 0 /\ h[2].restore = 1

\* C30: in non-interactive mode a gate decision of edit does not read an
\* edited text: the step that acts on it leaves the input untouched and
\* delivers the generated draft as it is, in the one delivery call of the cycle.
UnattendedEditSendsDraft ==
  [][ (pc = "act" /\ pc' # "act" /\ non_interactive /\ action = "edit")
        => /\ stdin' = stdin
           /\ outgoing' = response
           /\ h[i].deliv = 0 /\ h'[i].deliv = 1
           /\ pc' = "restore"
    ]_vars

UnattendedEditDeliveredReached ==
  /\ non_interactive /\ pc = "restore"
  /\ action = "edit" /\ h[i].ret = "edit"
  /\ outgoing = response /\ response # NoReply
  /\ h[i].deliv = 1

\* C31: a delivery that returns False is not retried, the loop goes on to
\* the next conversation, and the conversation keeps its unread mark, so
\* that the next run detects it again.
FailedDeliveryStaysUnread ==
  [][ (pc = "open" /\ success' = "False")
        => /\ i' = i + 1
           /\ unread_conversations[i] \in page'.marks
    ]_vars

\* C32: a navigation that times out is tried a second time, and the step
\* counts as failed only when the second attempt has failed too: a login
\* that gave up on the navigation to the feed has made two attempts at it.
FailedNavigationWasRetried ==
  login.cookies = "navigation_failed" => login.feed_gotos = 2

\* the number of distinct keywords of the list that occur in the text
DistinctIn(list, text) ==
  Cardinality({ w \in { list[p] : p \in DOMAIN list } : Contains(w, text) })

\* the score of the n-th category as the number of distinct keywords found
\* plus the bonuses of the two job categories
DistinctScore(f, low, n) ==
  DistinctIn(message_types[TypeOrder[n]], low)
  + IF TypeOrder[n] \in JobTypes
    THEN (IF f.len > 500 THEN 2 ELSE 0)
         + (IF f.signed THEN 3 ELSE 0)
         + (IF f.phrase THEN 1 ELSE 0)
    ELSE 0

\* C33: the score of each category is the number of distinct keywords of
\* its list found in the lower-cased text, plus for job_offer and
\* technical_recruiter 2 for more than 500 characters, 3 for a recruiter
\* signature and 1 for any job phrase; the winner is the first category in
\* list order with the highest score, general_message when all are 0.
ScoreCountsDistinctKeywords ==
  Classified =>
     LET f == Facts(cl_text)
         low == Lower(cl_text)
         scores == type_scores(cl_text)
     IN  /\ \A n \in DOMAIN TypeOrder :
              scores[TypeOrder[n]] = DistinctScore(f, low, n)
         /\ ScanMax(scores, 1, << 0, "general_message" >>)[2] = Winner(f)

\* C34: the signature override is applied exactly when the text has a
\* recruiter signature and the technical_recruiter list has at least 2
\* keywords in it, counted before any bonus.
OverrideIffSignedAndTwoRawTech ==
  Classified =>
     LET f == Facts(cl_text)
     IN  signature_override(f.signed, type_scores(cl_text))
           <=> (f.signed /\ f.raw[2] >= 2)

\* a step of the scheduler that is a trigger of check_linkedin_messages
Triggered == sched.at = "first" \/ sched'.next_run # sched.next_run

\* C35: a trigger creates and runs an agent if and only if the hour h of
\* the trigger satisfies start <= h < end; a trigger outside the window
\* takes no time and leaves no run behind it.
AgentRunsIffInsideWindow ==
  [][ Triggered =>
        /\ sched'.agent <=> (sched'.start_hour <= sched'.current_hour
                               /\ sched'.current_hour < sched'.end_hour)
        /\ ~sched'.agent =>
             /\ sched'.now = sched.now
             /\ sched'.tasks # sched.tasks => sched'.tasks[Len(sched'.tasks)] = 0
    ]_vars

TriggerAtEndHourSkippedReached ==
  /\ sched.at = "loop"
  /\ sched.current_hour = sched.end_hour /\ ~sched.agent
  /\ Len(sched.tasks) = 2 /\ sched.tasks[1] > 0 /\ sched.tasks[2] = 0

\* C36: generate_response returns a generated reply only with a credential
\* configured (and a client made from it); without a credential it returns
\* the contextual template of the message; in no case is the reply one of
\* the template store.
CredentialSelectsGeneration ==
  gen_call.method = "generate_response" =>
    LET reply == gen_call.result[2]
    IN  /\ reply.tier \in { "Generated", "ContextualTemplate" }
        /\ reply.tier = "Generated" =>
             openai_api_key /\ openai_client /\ gen_call.api # "raise"
        /\ reply.tier # "Generated" => reply = GenContextual[gen_call.text][2]
        /\ ~openai_api_key => reply.tier = "ContextualTemplate"

NoCredentialContextualReached ==
  /\ ~openai_api_key /\ ~openai_client
  /\ gen_call.method = "generate_response"
  /\ GenClassify[gen_call.text][1]
  /\ gen_call.result[2] = GenContextual[gen_call.text][2]
  /\ gen_calls = 1

\* C37: check_messages is called in a run only after login has reported the
\* authenticated state: a run whose login returned False does not go on to
\* the messages.
MessagesCheckedOnlyAfterLogin ==
  login.checked => login.ret = "True"

\* C40: every run of the agent comes to its end, with cleanup made exactly
\* once, whatever the operator does or fails to do.
RunEndsWithOneCleanup ==
  /\ [](login.cleanups <= 1 /\ (login.at = "ended" => login.cleanups = 1))
  /\ <>(login.at \in { "ended", "exited" })

\* the conversations of a log that occur in it more than once
Repeated(log) ==
  { log[k] : k \in { n \in 1..Len(log) : \E m \in 1..(n - 1) : log[m] = log[n] } }

\* C38: with handles that are positions of the listing, every conversation
\* the run opens is one that was found unread when the list was loaded, and
\* no conversation is opened or replied to twice in the run, whatever
\* happens to the listing between two cycles.
OpenedWereDetectedOnce ==
  /\ \A k \in 1..Len(page.opened) : page.opened[k] \in page.loaded
  /\ Repeated(page.opened) = { }
  /\ Repeated(page.replied) = { }

\* the value Prompt.ask (line 568) returns for a line typed at the prompt
EditedText(line, draft) ==
  IF Strip(line) = "" THEN draft
  ELSE [ tier |-> "Edited", body |-> Strip(line) ]

\* C39: the text handed to the delivery is the draft that was shown before
\* the gate when the decision is send, and the text the operator entered at
\* the edit prompt when the decision is edit in interactive mode; the draft
\* is generated once for a conversation and stays as shown from the gate to
\* the delivery.
DeliveredTextIsShownOrEdited ==
  /\ [](\A g \in 1..Len(unread_conversations) : h[g].gen <= 1)
  /\ [][ /\ DraftShown => (pc' = "open" \/ pc' = "done" \/ response' = response)
         /\ DraftShown => h'[i].gen = h[i].gen
         /\ (pc = "act" /\ action = "send" /\ h'[i].deliv > h[i].deliv)
              => outgoing' = response
         /\ (pc = "act" /\ action = "edit" /\ ~non_interactive
               /\ h'[i].deliv > h[i].deliv)
              => outgoing' = EditedText(Head(stdin), response)
       ]_vars

\* an edited text went to the delivery in place of the draft that was shown
EditedTextDeliveredReached ==
  /\ pc = "restore" /\ action = "edit" /\ ~non_interactive
  /\ h[i].gen = 1 /\ h[i].deliv = 1
  /\ outgoing.tier = "Edited" /\ outgoing # response
  /\ outgoing.body = "Sounds good, please call me."
====
